---- MODULE Spec2Model ----
(***************************************************************************)
(* Model of flare_evaluation.core.evaluator.FlareEvaluator: the evaluator  *)
(* object (its configuration and its cached last result), the evaluate     *)
(* computation (band masks, F_raw, F_norm, F_final and the auxiliary       *)
(* scalars), evaluate_file, get_detailed_metrics and update_config; of     *)
(* core.metrics.FlareMetrics; of config.ConfigManager, its validation and  *)
(* its objects; of utils.validators.DataValidator; and of one run of each  *)
(* command line program, cli/evaluate.py and the evaluate command of       *)
(* flare.py, presets included.                                             *)
(*                                                                         *)
(* Numbers.  Sensor samples and thresholds are integers.  Every Python     *)
(* float of the source is modelled as an exact rational [n, d] in lowest   *)
(* terms with d > 0; the one irrational operation, x ** beta_coverage with *)
(* a fractional exponent, is kept as an exact power term (see Pw).         *)
(***************************************************************************)
EXTENDS Integers, Sequences, FiniteSets, TLC

VARIABLES config, last_result, call, ref, params, latest, cli, manager

vars == <<config, last_result, call, ref, params, latest, cli, manager>>

(***************************************************************************)
(* Exact rational arithmetic.                                              *)
(***************************************************************************)
Abs(x) == IF x < 0 THEN -x ELSE x

RECURSIVE GCD(_, _)
GCD(a, b) == IF b = 0 THEN a ELSE GCD(b, a % b)

\* the rational n/d (d # 0) in lowest terms with a positive denominator
Q(n, d) ==
    LET g == GCD(Abs(n), Abs(d))
        s == IF d < 0 THEN -1 ELSE 1
    IN  [n |-> (s * n) \div g, d |-> (s * d) \div g]

Zero == Q(0, 1)
One == Q(1, 1)
FromInt(i) == Q(i, 1)

RMul(a, b) == Q(a.n * b.n, a.d * b.d)
RDiv(a, b) == Q(a.n * b.d, a.d * b.n)
RAdd(a, b) == Q(a.n * b.d + b.n * a.d, a.d * b.d)
RSub(a, b) == Q(a.n * b.d - b.n * a.d, a.d * b.d)
RLess(a, b) == a.n * b.d < b.n * a.d
RLeq(a, b) == a.n * b.d <= b.n * a.d
RMin(a, b) == IF RLeq(a, b) THEN a ELSE b
RSign(a) == IF a.n > 0 THEN 1 ELSE IF a.n < 0 THEN -1 ELSE 0
IsInteger(a) == a.d = 1

\* a ** k for a natural exponent k
RECURSIVE RPowNat(_, _)
RPowNat(a, k) == IF k = 0 THEN One ELSE RMul(a, RPowNat(a, k - 1))

(***************************************************************************)
(* Power terms: the real number coef * base ** exp with base > 0 and exp   *)
(* not an integer.  A value that is rational is kept with base = 1 and     *)
(* exp = 0, so that equal rationals have equal representations.            *)
(***************************************************************************)
Pw(coef, base, exp) ==
    IF coef = Zero \/ base = One \/ exp = Zero
    THEN [coef |-> coef, base |-> One, exp |-> Zero]
    ELSE [coef |-> coef, base |-> base, exp |-> exp]

PwRat(r) == Pw(r, One, Zero)
PwSign(p) == RSign(p.coef)
\* multiplication of a power term by a rational
PwScale(r, p) == Pw(RMul(r, p.coef), p.base, p.exp)

(***************************************************************************)
(* 2D arrays: a sequence of rows, each a sequence of samples.              *)
(***************************************************************************)
RECURSIVE Flatten(_)
Flatten(a) == IF a = <<>> THEN <<>> ELSE Head(a) \o Flatten(Tail(a))

\* data.size
Size(a) == Len(Flatten(a))

RECURSIVE SumSeq(_)
SumSeq(s) == IF s = <<>> THEN 0 ELSE Head(s) + SumSeq(Tail(s))

RECURSIVE MaxSeq(_)
MaxSeq(s) ==
    IF Len(s) = 1 THEN Head(s)
    ELSE LET m == MaxSeq(Tail(s)) IN IF Head(s) > m THEN Head(s) ELSE m

\* numpy boolean indexing a[mask]: the selected samples in row-major order
BoolIndex(a, mask) ==
    LET fa == Flatten(a)
        fm == Flatten(mask)
        picked == SelectSeq([k \in 1..Len(fa) |-> <<fa[k], fm[k]>>], LAMBDA p : p[2])
    IN  [k \in 1..Len(picked) |-> picked[k][1]]

\* np.sum(mask): the number of true entries
CountTrue(mask) == Len(SelectSeq(Flatten(mask), LAMBDA b : b))

(***************************************************************************)
(* Configuration.  A configuration is a dictionary: a function from key    *)
(* names to values.  dict.get(key, default) is Get.                        *)
(***************************************************************************)
Get(cfg, key, default) == IF key \in DOMAIN cfg THEN cfg[key] ELSE default

DefaultOffset == 64
DefaultSignalThreshold == 10
DefaultDirectIlluminationThreshold == 400
DefaultLightThreshold == 600
DefaultPixelPitchUm == Q(12, 5)
DefaultBetaCoverage == Q(1, 2)

_default_config ==
    [offset |-> DefaultOffset,
     signal_threshold |-> DefaultSignalThreshold,
     direct_illumination_threshold |-> DefaultDirectIlluminationThreshold,
     light_threshold |-> DefaultLightThreshold,
     pixel_pitch_um |-> DefaultPixelPitchUm,
     beta_coverage |-> DefaultBetaCoverage]

(***************************************************************************)
(* Samples.  A sample is an integer or the float nan.  nan is encoded as   *)
(* NaN, an integer that no sample and no threshold takes; every ordered    *)
(* comparison with nan is False, as for numpy and Python floats.           *)
(***************************************************************************)
NaN == -1000000

isnan(v) == v = NaN

Greater(v, t) == ~isnan(v) /\ v > t
GreaterEq(v, t) == ~isnan(v) /\ v >= t
Less(v, t) == ~isnan(v) /\ v < t
LessEq(v, t) == ~isnan(v) /\ v <= t

(***************************************************************************)
(* evaluate, step by step as in the source.                                *)
(***************************************************************************)
\* data > light_threshold
LightMask(data, light_threshold) ==
    [i \in 1..Len(data) |-> [j \in 1..Len(data[i]) |->
        Greater(data[i][j], light_threshold)]]

\* variant: the lower boundary taken inclusive (>= for >)
DirectIlluminationMaskInclusive(data, direct_illumination_threshold, light_threshold) ==
    [i \in 1..Len(data) |-> [j \in 1..Len(data[i]) |->
        GreaterEq(data[i][j], direct_illumination_threshold)
        /\ LessEq(data[i][j], light_threshold)]]

\* variant: the upper boundary taken exclusive (< for <=)
DirectIlluminationMaskStrict(data, direct_illumination_threshold, light_threshold) ==
    [i \in 1..Len(data) |-> [j \in 1..Len(data[i]) |->
        Greater(data[i][j], direct_illumination_threshold)
        /\ Less(data[i][j], light_threshold)]]

\* (data > direct_illumination_threshold) & (data <= light_threshold)
DirectIlluminationMask(data, direct_illumination_threshold, light_threshold) ==
    [i \in 1..Len(data) |-> [j \in 1..Len(data[i]) |->
        Greater(data[i][j], direct_illumination_threshold)
        /\ LessEq(data[i][j], light_threshold)]]

\* variant: the signal boundary taken inclusive (>= for >)
FlareConditionInclusive(data, offset, signal_threshold, direct_illumination_threshold) ==
    [i \in 1..Len(data) |-> [j \in 1..Len(data[i]) |->
        GreaterEq(data[i][j], offset + signal_threshold)
        /\ LessEq(data[i][j], direct_illumination_threshold)]]

\* (data > offset + signal_threshold) & (data <= direct_illumination_threshold)
FlareCondition(data, offset, signal_threshold, direct_illumination_threshold) ==
    [i \in 1..Len(data) |-> [j \in 1..Len(data[i]) |->
        Greater(data[i][j], offset + signal_threshold)
        /\ LessEq(data[i][j], direct_illumination_threshold)]]

\* flare_condition.astype(np.uint8) * 255
FlareMask(flare_condition) ==
    [i \in 1..Len(flare_condition) |-> [j \in 1..Len(flare_condition[i]) |->
        IF flare_condition[i][j] THEN 255 ELSE 0]]

\* the documented Background band: value <= offset + signal_threshold
BackgroundMask(data, offset, signal_threshold) ==
    [i \in 1..Len(data) |-> [j \in 1..Len(data[i]) |->
        LessEq(data[i][j], offset + signal_threshold)]]

\* variant: the offset is not subtracted
PixelsAboveOffsetRaw(data, mask, offset) == BoolIndex(data, mask)

\* data[mask] - offset
PixelsAboveOffset(data, mask, offset) ==
    LET picked == BoolIndex(data, mask)
    IN  [k \in 1..Len(picked) |-> picked[k] - offset]

\* pixel_pitch_um ** 2
PixelArea(pixel_pitch_um) == RMul(pixel_pitch_um, pixel_pitch_um)

\* total / (count * pixel_area_um2), the mean signal per unit area of a band
BandIntensity(total, count, pixel_area_um2) ==
    RDiv(FromInt(total), RMul(FromInt(count), pixel_area_um2))

\* variant: the band total per pixel area, not the band mean
FRawTotal(sigma_value, signal_pixel_count, pixel_area_um2) ==
    IF signal_pixel_count > 0
    THEN BandIntensity(sigma_value, 1, pixel_area_um2)
    ELSE Zero

\* METRIC 1
FRaw(sigma_value, signal_pixel_count, pixel_area_um2) ==
    IF signal_pixel_count > 0
    THEN BandIntensity(sigma_value, signal_pixel_count, pixel_area_um2)
    ELSE Zero

\* variant: the direct intensity is not divided by the pixel area
FNormNoArea(sigma_value, signal_pixel_count, direct_pixels_values, light_pixels_values, pixel_area_um2) ==
    IF signal_pixel_count > 0 /\ Len(direct_pixels_values) > 0
    THEN LET flare_intensity ==
                 BandIntensity(sigma_value, signal_pixel_count, pixel_area_um2)
             direct_intensity ==
                 Q(SumSeq(direct_pixels_values), Len(direct_pixels_values))
         IN  IF RLess(Zero, direct_intensity)
             THEN RDiv(flare_intensity, direct_intensity)
             ELSE Zero
    ELSE IF signal_pixel_count > 0 /\ Len(light_pixels_values) > 0
    THEN LET flare_intensity ==
                 BandIntensity(sigma_value, signal_pixel_count, pixel_area_um2)
             light_intensity ==
                 BandIntensity(SumSeq(light_pixels_values),
                               Len(light_pixels_values), pixel_area_um2)
         IN  IF RLess(Zero, light_intensity)
             THEN RDiv(flare_intensity, light_intensity)
             ELSE Zero
    ELSE Zero

\* variant: the light source is the reference whenever it has samples
FNormLightFirst(sigma_value, signal_pixel_count, direct_pixels_values, light_pixels_values, pixel_area_um2) ==
    IF signal_pixel_count > 0 /\ Len(light_pixels_values) > 0
    THEN LET flare_intensity ==
                 BandIntensity(sigma_value, signal_pixel_count, pixel_area_um2)
             light_intensity ==
                 BandIntensity(SumSeq(light_pixels_values),
                               Len(light_pixels_values), pixel_area_um2)
         IN  IF RLess(Zero, light_intensity)
             THEN RDiv(flare_intensity, light_intensity)
             ELSE Zero
    ELSE IF signal_pixel_count > 0 /\ Len(direct_pixels_values) > 0
    THEN LET flare_intensity ==
                 BandIntensity(sigma_value, signal_pixel_count, pixel_area_um2)
             direct_intensity ==
                 BandIntensity(SumSeq(direct_pixels_values),
                               Len(direct_pixels_values), pixel_area_um2)
         IN  IF RLess(Zero, direct_intensity)
             THEN RDiv(flare_intensity, direct_intensity)
             ELSE Zero
    ELSE Zero

\* variant: the flare intensity is left per sample, not per area
FNormFlarePerSample(sigma_value, signal_pixel_count, direct_pixels_values, light_pixels_values, pixel_area_um2) ==
    IF signal_pixel_count > 0 /\ Len(direct_pixels_values) > 0
    THEN LET flare_intensity == Q(sigma_value, signal_pixel_count)
             direct_intensity ==
                 BandIntensity(SumSeq(direct_pixels_values),
                               Len(direct_pixels_values), pixel_area_um2)
         IN  IF RLess(Zero, direct_intensity)
             THEN RDiv(flare_intensity, direct_intensity)
             ELSE Zero
    ELSE IF signal_pixel_count > 0 /\ Len(light_pixels_values) > 0
    THEN LET flare_intensity == Q(sigma_value, signal_pixel_count)
             light_intensity ==
                 BandIntensity(SumSeq(light_pixels_values),
                               Len(light_pixels_values), pixel_area_um2)
         IN  IF RLess(Zero, light_intensity)
             THEN RDiv(flare_intensity, light_intensity)
             ELSE Zero
    ELSE Zero

\* METRIC 2
FNorm(sigma_value, signal_pixel_count, direct_pixels_values, light_pixels_values, pixel_area_um2) ==
    IF signal_pixel_count > 0 /\ Len(direct_pixels_values) > 0
    THEN LET flare_intensity ==
                 BandIntensity(sigma_value, signal_pixel_count, pixel_area_um2)
             direct_intensity ==
                 BandIntensity(SumSeq(direct_pixels_values),
                               Len(direct_pixels_values), pixel_area_um2)
         IN  IF RLess(Zero, direct_intensity)
             THEN RDiv(flare_intensity, direct_intensity)
             ELSE Zero
    ELSE IF signal_pixel_count > 0 /\ Len(light_pixels_values) > 0
    THEN LET flare_intensity ==
                 BandIntensity(sigma_value, signal_pixel_count, pixel_area_um2)
             light_intensity ==
                 BandIntensity(SumSeq(light_pixels_values),
                               Len(light_pixels_values), pixel_area_um2)
         IN  IF RLess(Zero, light_intensity)
             THEN RDiv(flare_intensity, light_intensity)
             ELSE Zero
    ELSE Zero

\* variant: the ratio taken as a percentage
CoverageRatioPercent(signal_pixel_count, N_sensor) ==
    IF N_sensor > 0 THEN Q(signal_pixel_count * 100, N_sensor) ELSE Zero

\* signal_pixel_count / N_sensor if N_sensor > 0 else 0
CoverageRatio(signal_pixel_count, N_sensor) ==
    IF N_sensor > 0 THEN Q(signal_pixel_count, N_sensor) ELSE Zero

\* Python's x ** y for x >= 0: 0 ** y raises ZeroDivisionError for y < 0,
\* is 1 for y = 0 and 0 for y > 0.
PowRaises(x, y) == x = Zero /\ RSign(y) < 0

Pow(x, y) ==
    IF y = Zero THEN PwRat(One)
    ELSE IF x = Zero THEN PwRat(Zero)
    ELSE IF IsInteger(y)
    THEN IF y.n > 0
         THEN PwRat(RPowNat(x, y.n))
         ELSE PwRat(RDiv(One, RPowNat(x, -y.n)))
    ELSE Pw(One, x, y)

\* variant: * written for **
CoverageWeightTimes(coverage_ratio, beta_coverage) ==
    PwRat(RMul(coverage_ratio, beta_coverage))

\* variant: the exponent negated
CoverageWeightInverse(coverage_ratio, beta_coverage) ==
    Pow(coverage_ratio, RSub(Zero, beta_coverage))

\* coverage_ratio ** beta_coverage
CoverageWeight(coverage_ratio, beta_coverage) == Pow(coverage_ratio, beta_coverage)

\* METRIC 3: F_norm * coverage_weight
FFinal(F_norm, coverage_weight) == PwScale(F_norm, coverage_weight)

\* count / data.size * 100
CoveragePercent(count, size) == RMul(Q(count, size), FromInt(100))

\* The body of evaluate on the array data with the configuration cfg: either
\* the result dictionary, or the exception raised.  Python raises
\* ZeroDivisionError at coverage_ratio ** beta_coverage (0 to a negative
\* power) and at signal_pixel_count / data.size (an array with no element).
evaluate(data, cfg) ==
    LET offset == Get(cfg, "offset", DefaultOffset)
        signal_threshold == Get(cfg, "signal_threshold", DefaultSignalThreshold)
        direct_illumination_threshold ==
            Get(cfg, "direct_illumination_threshold", DefaultDirectIlluminationThreshold)
        light_threshold == Get(cfg, "light_threshold", DefaultLightThreshold)
        pixel_pitch_um == Get(cfg, "pixel_pitch_um", DefaultPixelPitchUm)
        beta_coverage == Get(cfg, "beta_coverage", DefaultBetaCoverage)
        pixel_area_um2 == PixelArea(pixel_pitch_um)
        light_mask == LightMask(data, light_threshold)
        light_pixels == CountTrue(light_mask)
        direct_illumination_mask ==
            DirectIlluminationMask(data, direct_illumination_threshold, light_threshold)
        direct_illumination_pixels == CountTrue(direct_illumination_mask)
        flare_condition ==
            FlareCondition(data, offset, signal_threshold, direct_illumination_threshold)
        flare_mask == FlareMask(flare_condition)
        flare_pixels == PixelsAboveOffset(data, flare_condition, offset)
        sigma_value == SumSeq(flare_pixels)
        signal_pixel_count == Len(flare_pixels)
        N_sensor == Size(data)
        F_raw == FRaw(sigma_value, signal_pixel_count, pixel_area_um2)
        F_norm == FNorm(sigma_value, signal_pixel_count,
                        PixelsAboveOffset(data, direct_illumination_mask, offset),
                        PixelsAboveOffset(data, light_mask, offset),
                        pixel_area_um2)
        coverage_ratio == CoverageRatio(signal_pixel_count, N_sensor)
        coverage_weight == CoverageWeight(coverage_ratio, beta_coverage)
        F_final == FFinal(F_norm, coverage_weight)
        flare_value == RMul(F_raw, pixel_area_um2)
        mean_flare_intensity ==
            IF Len(flare_pixels) > 0 THEN Q(sigma_value, Len(flare_pixels)) ELSE Zero
        max_flare_intensity ==
            IF Len(flare_pixels) > 0 THEN MaxSeq(flare_pixels) ELSE 0
    IN  IF PowRaises(coverage_ratio, beta_coverage) \/ N_sensor = 0
        THEN [status |-> "raised", error |-> "ZeroDivisionError", value |-> <<>>]
        ELSE [status |-> "ok", error |-> "",
              value |-> <<[F_raw |-> F_raw,
                           F_norm |-> F_norm,
                           F_final |-> F_final,
                           pixel_pitch_um |-> pixel_pitch_um,
                           pixel_area_um2 |-> pixel_area_um2,
                           flare_value |-> flare_value,
                           sigma_value |-> sigma_value,
                           signal_pixel_count |-> signal_pixel_count,
                           light_pixel_count |-> light_pixels,
                           direct_illumination_pixel_count |-> direct_illumination_pixels,
                           mean_flare_intensity |-> mean_flare_intensity,
                           max_flare_intensity |-> max_flare_intensity,
                           flare_coverage_percent |->
                               CoveragePercent(signal_pixel_count, N_sensor),
                           direct_illumination_coverage_percent |->
                               CoveragePercent(direct_illumination_pixels, N_sensor),
                           coverage_ratio |-> coverage_ratio,
                           coverage_weight |-> coverage_weight,
                           flare_mask |-> flare_mask,
                           light_mask |-> light_mask,
                           direct_illumination_mask |-> direct_illumination_mask]>>]

(***************************************************************************)
(* FlareMetrics.compute_advanced_metrics: the basic, statistical, spatial  *)
(* and quality views derived from a result.                                *)
(***************************************************************************)
_extract_basic_metrics(result) ==
    [flare_value |-> result.flare_value,
     total_signal |-> result.sigma_value,
     affected_pixels |-> result.signal_pixel_count,
     light_sources |-> result.light_pixel_count,
     coverage_percent |-> result.flare_coverage_percent]

\* variant: the ratio of an empty band is taken as 1
_compute_statistical_metrics_unit(result) ==
    [mean_intensity |-> result.mean_flare_intensity,
     max_intensity |-> result.max_flare_intensity,
     intensity_ratio |->
         IF result.max_flare_intensity > 0
         THEN RDiv(result.mean_flare_intensity, FromInt(result.max_flare_intensity))
         ELSE One]

_compute_statistical_metrics(result) ==
    [mean_intensity |-> result.mean_flare_intensity,
     max_intensity |-> result.max_flare_intensity,
     intensity_ratio |->
         IF result.max_flare_intensity > 0
         THEN RDiv(result.mean_flare_intensity, FromInt(result.max_flare_intensity))
         ELSE Zero]

\* metrics.py imports scipy unconditionally, so the module only loads with it
SCIPY_AVAILABLE == TRUE

\* np.where(mask): the index pairs of the True cells of a boolean array
Where(mask) ==
    UNION {{<<i, j>> : j \in {k \in 1..Len(mask[i]) : mask[i][k]}} : i \in 1..Len(mask)}

\* flare_mask > 0
Positive(mask) == [i \in 1..Len(mask) |-> [j \in 1..Len(mask[i]) |-> mask[i][j] > 0]]

\* the structuring element ndimage.label uses when none is given,
\* generate_binary_structure(2, 1): the four edge neighbours of a cell
DefaultStructure == {<<-1, 0>>, <<1, 0>>, <<0, -1>>, <<0, 1>>}

\* the cells of a set that a structuring element connects to a cell
Neighbours(c, cells, structure) ==
    {d \in cells : <<d[1] - c[1], d[2] - c[2]>> \in structure}

\* the connected component of cells that contains region
RECURSIVE Grow(_, _, _)
Grow(region, cells, structure) ==
    LET next == region \cup UNION {Neighbours(c, cells, structure) : c \in region}
    IN  IF next = region THEN region ELSE Grow(next, cells, structure)

\* the first cell of a non-empty set in row-major order
RasterFirst(cells) ==
    CHOOSE c \in cells :
        \A d \in cells : c[1] < d[1] \/ (c[1] = d[1] /\ c[2] <= d[2])

\* the connected components, in the order their first cells are scanned
RECURSIVE Regions(_, _)
Regions(cells, structure) ==
    IF cells = {} THEN <<>>
    ELSE LET r == Grow({RasterFirst(cells)}, cells, structure)
         IN  <<r>> \o Regions(cells \ r, structure)

\* ndimage.label(input, structure): the labelled array and the number of features
label(input, structure) ==
    LET regions == Regions(Where(input), structure)
    IN  [labeled_array |->
             [i \in 1..Len(input) |-> [j \in 1..Len(input[i]) |->
                 IF input[i][j]
                 THEN CHOOSE k \in 1..Len(regions) : <<i, j>> \in regions[k]
                 ELSE 0]],
         num_features |-> Len(regions)]

\* ndimage.sum(input, labels, index): per label, the sum of input over its cells
LabelSums(input, labels, index) ==
    [k \in 1..Len(index) |->
        Cardinality({c \in Where(input) : labels[c[1]][c[2]] = index[k]})]

\* a score 1 - mean(sqrt(sq[k])) / (sqrt(diag2) / 2), kept as an exact term: sq
\* holds the squared distances of the cells from the centre of mass
DistanceScore(sq, diag2) == [sq |-> sq, diag2 |-> diag2]

\* _calculate_distribution_score(mask)
_calculate_distribution_score(mask) ==
    IF ~SCIPY_AVAILABLE \/ SumSeq(Flatten(mask)) = 0 THEN Zero
    ELSE LET cells == Where(Positive(mask))
             total == SumSeq(Flatten(mask))
             \* ndimage.center_of_mass(mask): the mean index weighted by the mask
             com == <<Q(SumSeq([k \in 1..Len(mask) |-> k * SumSeq(mask[k])]), total),
                      Q(SumSeq(Flatten([i \in 1..Len(mask) |->
                            [j \in 1..Len(mask[i]) |-> j * mask[i][j]]])), total)>>
             RECURSIVE Squares(_)
             Squares(cs) ==
                 IF cs = {} THEN <<>>
                 ELSE LET c == RasterFirst(cs)
                          dy == RSub(FromInt(c[1]), com[1])
                          dx == RSub(FromInt(c[2]), com[2])
                      IN  <<RAdd(RMul(dy, dy), RMul(dx, dx))>> \o Squares(cs \ {c})
         IN  IF cells = {} THEN Zero
             ELSE DistanceScore(Squares(cells),
                                Len(mask) * Len(mask) + Len(mask[1]) * Len(mask[1]))

\* the mean of a non-empty sequence of integers
MeanSeq(s) == Q(SumSeq(s), Len(s))

_compute_spatial_metrics(result) ==
    LET flare_mask == result.flare_mask
        labelled == label(Positive(flare_mask), DefaultStructure)
        num_features == labelled.num_features
        sizes == LabelSums(Positive(flare_mask), labelled.labeled_array,
                           [k \in 1..num_features |-> k])
    IN  IF ~SCIPY_AVAILABLE THEN [available |-> FALSE]
        ELSE [num_flare_regions |-> num_features,
              max_region_size |->
                  IF num_features > 0 /\ Len(sizes) > 0 THEN MaxSeq(sizes) ELSE 0,
              mean_region_size |->
                  IF num_features > 0 /\ Len(sizes) > 0 THEN MeanSeq(sizes) ELSE Zero,
              spatial_distribution |-> _calculate_distribution_score(flare_mask)]

\* variant: a boundary value gets the lower grade (> for >=)
_get_quality_grade_strict(quality_index) ==
    IF RLess(Q(9, 10), quality_index) THEN "A"
    ELSE IF RLess(Q(8, 10), quality_index) THEN "B"
    ELSE IF RLess(Q(7, 10), quality_index) THEN "C"
    ELSE IF RLess(Q(6, 10), quality_index) THEN "D"
    ELSE "F"

_get_quality_grade(quality_index) ==
    IF RLeq(Q(9, 10), quality_index) THEN "A"
    ELSE IF RLeq(Q(8, 10), quality_index) THEN "B"
    ELSE IF RLeq(Q(7, 10), quality_index) THEN "C"
    ELSE IF RLeq(Q(6, 10), quality_index) THEN "D"
    ELSE "F"

_compute_quality_metrics(result, cfg) ==
    LET flare_value == result.flare_value
        severity_score == RMin(RDiv(flare_value, FromInt(100)), One)
        coverage_score == RDiv(result.flare_coverage_percent, FromInt(100))
        quality_index ==
            RSub(One, RAdd(RMul(severity_score, Q(6, 10)),
                           RMul(coverage_score, Q(4, 10))))
    IN  [severity_score |-> severity_score,
         coverage_score |-> coverage_score,
         quality_index |-> quality_index,
         quality_grade |-> _get_quality_grade(quality_index)]

compute_advanced_metrics(result, cfg) ==
    [basic |-> _extract_basic_metrics(result),
     statistical |-> _compute_statistical_metrics(result),
     spatial |-> _compute_spatial_metrics(result),
     quality |-> _compute_quality_metrics(result, cfg)]

(***************************************************************************)
(* Configuration management and validation.  A ConfigManager configuration *)
(* is a record of sections, each section a record of values.               *)
(***************************************************************************)
DEFAULT_CONFIG ==
    [sensor |-> [size |-> 512, bit_depth |-> 10, max_value |-> 1023,
                 offset |-> 64, noise_std |-> 2],
     evaluation |-> [signal_threshold |-> 10,
                     direct_illumination_threshold |-> 400,
                     light_threshold |-> 600,
                     pixel_size |-> One,
                     light_amount |-> One],
     generation |-> [light_intensity |-> 1023,
                     flare_intensity_range |-> <<Q(1, 5), Q(2, 5)>>,
                     flare_radius_range |-> <<30, 50>>,
                     enable_cross_pattern |-> TRUE,
                     enable_hot_pixels |-> TRUE,
                     hot_pixel_count |-> 20],
     visualization |-> [output_format |-> "pgm", colormap |-> "viridis", dpi |-> 100],
     processing |-> [batch_size |-> 10, parallel |-> FALSE, cache_results |-> TRUE]]

\* dict.update on a copy: the entries of updates replace or extend those of d
Updated(d, updates) ==
    [k \in DOMAIN d \cup DOMAIN updates |->
        IF k \in DOMAIN updates THEN updates[k] ELSE d[k]]

\* _deep_merge(base, updates) for configurations: a section present on both
\* sides is merged entry by entry, any other entry of updates replaces
_deep_merge(base, updates) ==
    [k \in DOMAIN base \cup DOMAIN updates |->
        IF k \notin DOMAIN updates THEN base[k]
        ELSE IF k \in DOMAIN base THEN Updated(base[k], updates[k])
        ELSE updates[k]]

\* ConfigManager.set('<section>.<name>', value)
Set(cm, section, name, value) ==
    LET old == IF section \in DOMAIN cm THEN cm[section] ELSE <<>>
    IN  [k \in DOMAIN cm \cup {section} |->
            IF k = section
            THEN [n \in DOMAIN old \cup {name} |-> IF n = name THEN value ELSE old[n]]
            ELSE cm[k]]

\* ConfigManager.export_section(section): a copy of the section
export_section(cm, section) == Get(cm, section, <<>>)

\* ConfigManager.validate()
validate(cm) ==
    LET sensor == Get(cm, "sensor", <<>>)
        eval_config == Get(cm, "evaluation", <<>>)
        gen_config == Get(cm, "generation", <<>>)
        flare_range == Get(gen_config, "flare_intensity_range", <<Zero, One>>)
        warnings ==
            (IF Get(sensor, "bit_depth", 10) > 16
             THEN <<"Bit depth > 16 may cause memory issues">> ELSE <<>>)
            \o (IF Get(sensor, "size", 512) > 2048
                THEN <<"Large sensor size may impact performance">> ELSE <<>>)
        errors ==
            (IF Get(eval_config, "signal_threshold", 0)
                  >= Get(eval_config, "light_threshold", 255)
             THEN <<"Signal threshold must be less than light threshold">> ELSE <<>>)
            \o (IF RLess(flare_range[2], flare_range[1])
                THEN <<"Invalid flare intensity range">> ELSE <<>>)
    IN  [valid |-> errors = <<>>, errors |-> errors, warnings |-> warnings]

\* DataValidator.validate_config(config)
validate_config(cfg) ==
    LET required == <<"offset", "signal_threshold", "light_threshold">>
        missing == SelectSeq(required, LAMBDA param : param \notin DOMAIN cfg)
        errors ==
            [k \in 1..Len(missing) |-> "Missing required parameter"]
            \o (IF "offset" \in DOMAIN cfg /\ cfg.offset < 0
                THEN <<"Offset must be non-negative">> ELSE <<>>)
            \o (IF "signal_threshold" \in DOMAIN cfg /\ cfg.signal_threshold < 0
                THEN <<"Signal threshold must be non-negative">> ELSE <<>>)
            \o (IF "light_threshold" \in DOMAIN cfg
                   /\ cfg.light_threshold <= Get(cfg, "offset", 0)
                THEN <<"Light threshold must be greater than offset">> ELSE <<>>)
            \o (IF {"signal_threshold", "light_threshold"} \subseteq DOMAIN cfg
                   /\ cfg.signal_threshold >= cfg.light_threshold
                THEN <<"Signal threshold must be less than light threshold">>
                ELSE <<>>)
        warnings ==
            IF "offset" \in DOMAIN cfg /\ cfg.offset >= 0 /\ cfg.offset > 100
            THEN <<"Unusually high offset value">> ELSE <<>>
    IN  [valid |-> errors = <<>>, errors |-> errors, warnings |-> warnings]

(***************************************************************************)
(* Data validation.                                                        *)
(***************************************************************************)
\* data.min() and data.max(): nan if any sample is nan
RECURSIVE MinSeq(_)
MinSeq(s) ==
    IF Len(s) = 1 THEN Head(s)
    ELSE LET m == MinSeq(Tail(s)) IN IF Head(s) < m THEN Head(s) ELSE m

NanMin(data) ==
    IF \E k \in 1..Size(data) : isnan(Flatten(data)[k]) THEN NaN
    ELSE MinSeq(Flatten(data))

NanMax(data) ==
    IF \E k \in 1..Size(data) : isnan(Flatten(data)[k]) THEN NaN
    ELSE MaxSeq(Flatten(data))

\* len(data.shape): the array built from no rows at all has shape (0,)
Ndim(data) == IF data = <<>> THEN 1 ELSE 2

\* 2 ** bit_depth
RECURSIVE Pow2(_)
Pow2(k) == IF k = 0 THEN 1 ELSE 2 * Pow2(k - 1)

\* DataValidator.validate_sensor_data(data, bit_depth=bit_depth): min() of an
\* array without samples raises ValueError
validate_sensor_data(data, bit_depth) ==
    IF Size(data) = 0
    THEN [status |-> "raised", error |-> "ValueError", value |-> <<>>]
    ELSE LET max_value == Pow2(bit_depth) - 1
             min_val == NanMin(data)
             max_val == NanMax(data)
             errors ==
                 (IF Ndim(data) # 2 THEN <<"Data must be 2D">> ELSE <<>>)
                 \o (IF Less(min_val, 0) THEN <<"Negative values found">> ELSE <<>>)
                 \o (IF Greater(max_val, max_value)
                     THEN <<"Values exceed bit range">> ELSE <<>>)
                 \o (IF \E k \in 1..Size(data) : isnan(Flatten(data)[k])
                     THEN <<"Data contains NaN values">> ELSE <<>>)
         IN  [status |-> "ok", error |-> "",
              value |-> <<[valid |-> errors = <<>>, errors |-> errors]>>]

\* Only the checks that decide valid are kept: the info entries and the
\* low-unique-ratio warning of validate_sensor_data are not modelled, and
\* np.isinf never holds because no sample of the model is infinite.

\* variant: a zero sigma_value is rejected too
validate_results_positive(results) ==
    IF \E field \in {"flare_value", "sigma_value", "signal_pixel_count"} :
          field \notin DOMAIN results
    THEN FALSE
    ELSE IF results.signal_pixel_count = 0 /\ results.flare_value # Zero
    THEN FALSE
    ELSE IF results.sigma_value <= 0
    THEN FALSE
    ELSE TRUE

\* DataValidator.validate_results(results)
validate_results(results) ==
    IF \E field \in {"flare_value", "sigma_value", "signal_pixel_count"} :
          field \notin DOMAIN results
    THEN FALSE
    ELSE IF results.signal_pixel_count = 0 /\ results.flare_value # Zero
    THEN FALSE
    ELSE IF results.sigma_value < 0
    THEN FALSE
    ELSE TRUE

\* the fields a CSV file may hold, and what float() makes of each
Fields == {"64", "100", "500", "1000", "2000", "nan", "x"}

IsFloatLiteral(field) == field # "x"

float(field) ==
    CASE field = "64" -> 64
      [] field = "100" -> 100
      [] field = "500" -> 500
      [] field = "1000" -> 1000
      [] field = "2000" -> 2000
      [] field = "nan" -> NaN

\* DataLoader.load_csv(filepath) on a file with the given rows of fields: every
\* field goes through float(), which raises ValueError on a field that is no
\* number and yields nan for the field nan
load_csv(rows) ==
    IF \E i \in 1..Len(rows) : \E j \in 1..Len(rows[i]) : ~IsFloatLiteral(rows[i][j])
    THEN [status |-> "raised", error |-> "ValueError", value |-> <<>>]
    ELSE [status |-> "ok", error |-> "",
          value |-> <<[i \in 1..Len(rows) |->
                         [j \in 1..Len(rows[i]) |-> float(rows[i][j])]]>>]

(***************************************************************************)
(* Inputs.                                                                 *)
(***************************************************************************)
\* the largest number of samples of an enumerated input array
MaxCells == 2

\* sample values: the black level, a flare level, a direct-illumination level
\* and a light-source level of the default configuration
Values == {64, 100, 500, 1000}

\* all h x w arrays over vals with at least one and at most cells samples
Arrays(vals, cells) ==
    UNION {[1..h -> [1..w -> vals]] :
             <<h, w>> \in {s \in (1..cells) \X (1..cells) : s[1] * s[2] <= cells}}

\* arrays without samples: shape (0,) and shape (1, 0)
EmptyArrays == {<<>>, << <<>> >>}

\* 4x4 array of the black level only
ScenarioA == [i \in 1..4 |-> [j \in 1..4 |-> 64]]

\* 4x4 array with one light-source, one direct-illumination and one flare sample
ScenarioB ==
    [i \in 1..4 |-> [j \in 1..4 |->
        IF <<i, j>> = <<1, 1>> THEN 1000
        ELSE IF <<i, j>> = <<2, 3>> THEN 500
        ELSE IF <<i, j>> = <<4, 2>> THEN 100
        ELSE 64]]

InputArrays == Arrays(Values, MaxCells) \cup EmptyArrays \cup {ScenarioA, ScenarioB}
\* the arrays a caller passes to a long-lived evaluator
CallArrays == {<<>>, << <<100, 1000>>, <<64, 100>> >>, << <<64, 64>> >>}

\* the files a caller passes to evaluate_file, as rows of fields
CallFiles == {<< <<"100", "nan">>, <<"500", "64">> >>}

\* parameter records, with ordered, tied and inverted thresholds
ParamSpace ==
    [offset : {64, 500},
     signal_threshold : {-450, 10, 36},
     direct_illumination_threshold : {100, 400},
     light_threshold : {64, 500, 600},
     pixel_pitch_um : {One, Q(12, 5)},
     beta_coverage : {Q(-1, 1), Zero, Q(1, 2), Q(2, 1)}]

\* what a caller passes to the constructor: None, an empty dictionary or a
\* configuration of its own
CtorArgs == {<<>>, << <<>> >>, <<[_default_config EXCEPT !.beta_coverage = One]>>}

\* the keyword arguments of update_config calls
UpdateArgs ==
    {<<"light_threshold", 100>>, <<"light_threshold", 600>>,
     <<"beta_coverage", Q(-1, 1)>>}

(***************************************************************************)
(* The evaluator object.                                                   *)
(*   config       self.config                                              *)
(*   last_result  self._last_result: <<>> for None, else <<result>>        *)
(*   call         the most recent call on the object: operation,           *)
(*                arguments, the configuration it ran with, whether the    *)
(*                cache was still None when it started, and its outcome    *)
(*   ref          an earlier evaluate call remembered by an observer, for  *)
(*                comparing two calls of one history: <<>> or <<call>>.    *)
(*                call and ref record what a caller sees; the evaluator    *)
(*                reads neither.                                           *)
(*   params       the caller's side of the constructor argument: passed is *)
(*                the argument as it was when passed (<<>> for None, else  *)
(*                <<dictionary>>), dict is what the caller's dictionary    *)
(*                holds now                                                *)
(*   latest       what the most recent evaluate call that returned has     *)
(*                returned, as a caller would note it down at that moment: *)
(*                <<>> or <<result>>                                       *)
(*   cli          the evaluation command line program (see below); NoCli   *)
(*                when the evaluator is used as a library                  *)
(*   manager      the ConfigManager class and one instance of it (see      *)
(*                below); NoManager when none is in use                    *)
(***************************************************************************)
\* `config or self._default_config()` keeps the caller's own dictionary object
\* when it is a non-empty dictionary: self.config and the caller's dictionary
\* are then one object
SharesCallerDict(arg) == arg # <<>> /\ arg[1] # <<>>

NoCli == [pc |-> "none"]

\* no ConfigManager has been imported or built
NoManager == <<>>

\* __init__: self.config = config or self._default_config()
InitConfig(arg) == IF arg = <<>> \/ arg[1] = <<>> THEN _default_config ELSE arg[1]

Constructed(cfg, arg) ==
    /\ config = cfg
    /\ last_result = <<>>
    /\ call = [op |-> "__init__", args |-> arg, cfg |-> cfg, fresh |-> TRUE,
               status |-> "ok", error |-> "", value |-> <<>>]
    /\ ref = <<>>
    /\ params = [passed |-> arg, dict |-> arg]
    /\ latest = <<>>
    /\ cli = NoCli
    /\ manager = NoManager

Init == \E arg \in CtorArgs : Constructed(InitConfig(arg), arg)

\* variant: a cached result is returned instead of evaluating again
EvaluateMemo(data) ==
    LET r == IF last_result = <<>>
             THEN evaluate(data, config)
             ELSE [status |-> "ok", error |-> "", value |-> last_result]
    IN  /\ last_result' = IF r.status = "ok" THEN r.value ELSE last_result
        /\ call' = [op |-> "evaluate", args |-> <<data>>, cfg |-> config,
                    fresh |-> (last_result = <<>>),
                    status |-> r.status, error |-> r.error, value |-> r.value]
        /\ latest' = IF r.status = "ok" THEN r.value ELSE latest
        /\ UNCHANGED <<config, ref, params, cli, manager>>

\* variant: a failing call returns and caches the counts gathered so far
EvaluateStorePartial(data) ==
    LET r == evaluate(data, config)
        partial == <<[signal_pixel_count |-> 0, total_pixels |-> Size(data)]>>
    IN  /\ last_result' = IF r.status = "ok" THEN r.value ELSE partial
        /\ call' = [op |-> "evaluate", args |-> <<data>>, cfg |-> config,
                    fresh |-> (last_result = <<>>),
                    status |-> r.status, error |-> r.error,
                    value |-> IF r.status = "ok" THEN r.value ELSE partial]
        /\ latest' = IF r.status = "ok" THEN r.value ELSE latest
        /\ UNCHANGED <<config, ref, params, cli, manager>>

\* variant: a failing call resets the evaluator to its defaults
EvaluateResetOnError(data) ==
    LET r == evaluate(data, config)
    IN  /\ last_result' = IF r.status = "ok" THEN r.value ELSE <<>>
        /\ config' = IF r.status = "ok" THEN config ELSE _default_config
        /\ call' = [op |-> "evaluate", args |-> <<data>>, cfg |-> config,
                    fresh |-> (last_result = <<>>),
                    status |-> r.status, error |-> r.error, value |-> r.value]
        /\ latest' = IF r.status = "ok" THEN r.value ELSE latest
        /\ UNCHANGED <<ref, params, cli, manager>>

\* evaluate(data)
Evaluate(data) ==
    LET r == evaluate(data, config)
    IN  /\ last_result' = IF r.status = "ok" THEN r.value ELSE last_result
        /\ call' = [op |-> "evaluate", args |-> <<data>>, cfg |-> config,
                    fresh |-> (last_result = <<>>),
                    status |-> r.status, error |-> r.error, value |-> r.value]
        /\ latest' = IF r.status = "ok" THEN r.value ELSE latest
        /\ UNCHANGED <<config, ref, params, cli, manager>>

\* evaluate_file(filepath): load_csv, then evaluate; nothing in between
EvaluateFile(rows) ==
    LET loaded == load_csv(rows)
        r == IF loaded.status = "ok" THEN evaluate(loaded.value[1], config) ELSE loaded
    IN  /\ last_result' = IF r.status = "ok" THEN r.value ELSE last_result
        /\ call' = [op |-> "evaluate_file", args |-> <<rows>>, cfg |-> config,
                    fresh |-> (last_result = <<>>),
                    status |-> r.status, error |-> r.error, value |-> r.value]
        /\ latest' = IF r.status = "ok" THEN r.value ELSE latest
        /\ UNCHANGED <<config, ref, params, cli, manager>>

\* variant: update_config invalidates the cached result
GetDetailedMetricsInvalidated ==
    /\ call' = [op |-> "get_detailed_metrics", args |-> <<>>, cfg |-> config,
                fresh |-> (last_result = <<>>),
                status |-> "ok", error |-> "",
                value |-> IF last_result = <<>> \/ call.op = "update_config"
                          THEN <<>>
                          ELSE <<compute_advanced_metrics(last_result[1], config)>>]
    /\ UNCHANGED <<config, last_result, ref, params, latest, cli, manager>>

\* get_detailed_metrics()
GetDetailedMetrics ==
    /\ call' = [op |-> "get_detailed_metrics", args |-> <<>>, cfg |-> config,
                fresh |-> (last_result = <<>>),
                status |-> "ok", error |-> "",
                value |-> IF last_result = <<>>
                          THEN <<>>
                          ELSE <<compute_advanced_metrics(last_result[1], config)>>]
    /\ UNCHANGED <<config, last_result, ref, params, latest, cli, manager>>

\* update_config(**{key: value}): self.config.update(kwargs)
UpdateConfig(key, value) ==
    /\ config' = [k \in DOMAIN config \cup {key} |->
                      IF k = key THEN value ELSE config[k]]
    /\ call' = [op |-> "update_config", args |-> <<key, value>>, cfg |-> config',
                fresh |-> (last_result = <<>>),
                status |-> "ok", error |-> "", value |-> <<>>]
    /\ params' = IF SharesCallerDict(params.passed)
                 THEN [params EXCEPT !.dict = <<config'>>]
                 ELSE params
    /\ UNCHANGED <<last_result, ref, latest, cli, manager>>

\* the observer remembers the evaluate call that has just completed
Observe ==
    /\ call.op = "evaluate"
    /\ ref = <<>>
    /\ ref' = <<call>>
    /\ UNCHANGED <<config, last_result, call, params, latest, cli, manager>>

Next ==
    \/ \E data \in CallArrays : Evaluate(data)
    \/ \E rows \in CallFiles : EvaluateFile(rows)
    \/ GetDetailedMetrics
    \/ \E a \in UpdateArgs : UpdateConfig(a[1], a[2])
    \/ Observe

\* a long-lived evaluator used by a caller
Spec == Init /\ [][Next]_vars

\* evaluate as a function of its inputs: a new evaluator with any parameter
\* record, applied once to any input array
InitEval == \E cfg \in ParamSpace : Constructed(cfg, <<cfg>>)

NextEval == call.op = "__init__" /\ \E data \in InputArrays : Evaluate(data)

SpecEval == InitEval /\ [][NextEval]_vars

\* One use of an evaluator built with any parameter record: evaluate an
\* array, then either ask for the detailed metrics or validate the result.
UseArrays == {ScenarioA, ScenarioB, << <<64, 64>> >>, << <<100, 1000>>, <<64, 100>> >>, << <<100, 100>>, <<500, 100>> >>}

\* DataValidator.validate_results(results) on the dictionary evaluate returned
ValidateResults ==
    /\ last_result # <<>>
    /\ call' = [op |-> "validate_results", args |-> <<last_result[1]>>, cfg |-> config,
                fresh |-> FALSE, status |-> "ok", error |-> "",
                value |-> <<validate_results(last_result[1])>>]
    /\ UNCHANGED <<config, last_result, ref, params, latest, cli, manager>>

NextUse ==
    \/ call.op = "__init__" /\ \E data \in UseArrays : Evaluate(data)
    \/ call.op = "evaluate" /\ GetDetailedMetrics
    \/ call.op = "evaluate" /\ ValidateResults

SpecUse == InitEval /\ [][NextUse]_vars

(***************************************************************************)
(* The evaluation command line program, main() of cli/evaluate.py.         *)
(*   cli.pc       where main is: start, configured (evaluator created),    *)
(*                loaded, evaluated, plotted, done or exit                 *)
(*   cli.args     the parsed command line; an option not given is <<>>     *)
(*   cli.cm       config_manager.config                                    *)
(*   cli.data     <<>> or <<the loaded array>>                             *)
(*   cli.results  <<>> or <<results>>: the dictionary evaluate returned,   *)
(*                which is the object self._last_result of the evaluator   *)
(*   cli.code     the exit status, -1 while running                        *)
(*   cli.stderr   the heading of the error printed before exit             *)
(* Image export and the report files are not modelled.                     *)
(***************************************************************************)
\* the configuration files of the runs: none, and files with an evaluation
\* section that inverts thresholds, breaks the one validated relation, or sets
\* a negative pixel pitch
ConfigFiles ==
    {<<>>,
     <<[evaluation |-> [direct_illumination_threshold |-> 700]]>>,
     <<[evaluation |-> [signal_threshold |-> 600]]>>,
     <<[evaluation |-> [pixel_pitch_um |-> Q(-12, 5)]]>>,
     <<[evaluation |-> [offset |-> 64, beta_coverage |-> One]]>>}

\* the input files: Scenario B, two diagonal flare samples with a light source,
\* a nan sample, a sample beyond 10 bits, a field that is no number, no rows
DataFiles ==
    {[i \in 1..4 |-> [j \in 1..4 |->
         IF <<i, j>> = <<1, 1>> THEN "1000"
         ELSE IF <<i, j>> = <<2, 3>> THEN "500"
         ELSE IF <<i, j>> = <<4, 2>> THEN "100"
         ELSE "64"]],
     << <<"100", "1000">>, <<"64", "100">> >>,
     << <<"100", "nan">>, <<"500", "64">> >>,
     << <<"2000", "100">> >>,
     << <<"64", "x">> >>,
     <<>>}

\* PresetManager.PRESETS[name]['config'] of two of the presets
PRESETS ==
    [standard |-> [sensor |-> [bit_depth |-> 10, offset |-> 64],
                   evaluation |-> [signal_threshold |-> 10,
                                   direct_illumination_threshold |-> 400,
                                   light_threshold |-> 600]],
     low_light |-> [sensor |-> [bit_depth |-> 10, offset |-> 32, noise_std |-> 5],
                    evaluation |-> [signal_threshold |-> 3,
                                    direct_illumination_threshold |-> 120,
                                    light_threshold |-> 300]]]

\* PresetManager.list_presets(): a list of dicts, one for each preset
list_presets == {[is |-> "dict", dict |-> [name |-> name]] : name \in DOMAIN PRESETS}

\* argparse's check of an option value against choices, `value in choices`:
\* the value is the str of the command line, and a str equals no dict
InChoices(value, choices) == \E c \in choices : c.is = "str" /\ c.str = value

\* PresetManager.apply_preset(config_manager, preset_name)
apply_preset(cm, preset_name) == _deep_merge(cm, PRESETS[preset_name])

CliArgs ==
    [config : ConfigFiles,
     preset : {<<>>, <<"low_light">>},
     offset : {<<>>, <<500>>},
     signal_threshold : {<<>>},
     light_threshold : {<<>>, <<300>>},
     pixel_size : {<<>>},
     light_amount : {<<>>},
     validate : BOOLEAN,
     matplotlib : BOOLEAN,
     input : DataFiles]

\* config_manager.set(key, value) when the option was given
Override(cm, option, name) ==
    IF option # <<>> THEN Set(cm, "evaluation", name, option[1]) ELSE cm

CliExit(message) ==
    [cli EXCEPT !.pc = "exit", !.code = 1, !.stderr = message]

\* main has started; no evaluator exists yet
InitCli ==
    /\ cli \in [pc : {"start"}, args : CliArgs, cm : {DEFAULT_CONFIG},
                data : {<<>>}, results : {<<>>}, code : {-1}, stderr : {""}]
    /\ config = <<>>
    /\ last_result = <<>>
    /\ call = [op |-> "none", args |-> <<>>, cfg |-> <<>>, fresh |-> TRUE,
               status |-> "ok", error |-> "", value |-> <<>>]
    /\ ref = <<>>
    /\ params = [passed |-> <<>>, dict |-> <<>>]
    /\ latest = <<>>
    /\ manager = NoManager

\* lines 107-144: parse the command line, set up the configuration, validate
\* it, create the evaluator
CliConfigure ==
    /\ cli.pc = "start"
    /\ LET args == cli.args
           loaded == IF args.config # <<>>
                     THEN _deep_merge(DEFAULT_CONFIG, args.config[1])
                     ELSE cli.cm
           preset == IF args.preset # <<>>
                     THEN apply_preset(loaded, args.preset[1])
                     ELSE loaded
           cm == Override(Override(Override(Override(Override(preset,
                     args.offset, "offset"),
                     args.signal_threshold, "signal_threshold"),
                     args.light_threshold, "light_threshold"),
                     args.pixel_size, "pixel_size"),
                     args.light_amount, "light_amount")
           validation == validate(cm)
           section == export_section(cm, "evaluation")
       IN  IF args.preset # <<>> /\ ~InChoices(args.preset[1], list_presets)
           THEN /\ cli' = [CliExit("argument --preset: invalid choice") EXCEPT !.code = 2]
                /\ UNCHANGED <<config, last_result, call, params>>
           ELSE IF ~validation.valid
           THEN /\ cli' = [CliExit("Configuration errors:") EXCEPT !.cm = cm]
                /\ UNCHANGED <<config, last_result, call, params>>
           ELSE /\ cli' = [cli EXCEPT !.pc = "configured", !.cm = cm]
                /\ config' = InitConfig(<<section>>)
                /\ last_result' = <<>>
                /\ call' = [op |-> "__init__", args |-> <<section>>,
                            cfg |-> config', fresh |-> TRUE,
                            status |-> "ok", error |-> "", value |-> <<>>]
                /\ params' = [passed |-> <<section>>, dict |-> <<section>>]
    /\ UNCHANGED <<ref, latest, manager>>

\* lines 146-172: load the data and, with --validate, validate it
CliLoad ==
    /\ cli.pc = "configured"
    /\ LET loaded == load_csv(cli.args.input)
           data_validation ==
               validate_sensor_data(loaded.value[1],
                                    Get(Get(cli.cm, "sensor", <<>>), "bit_depth", 10))
       IN  cli' =
             IF loaded.status = "raised" THEN CliExit("Error loading data")
             ELSE IF ~cli.args.validate
             THEN [cli EXCEPT !.pc = "loaded", !.data = loaded.value]
             ELSE IF data_validation.status = "raised"
             THEN [CliExit("Error loading data") EXCEPT !.data = loaded.value]
             ELSE IF ~data_validation.value[1].valid
             THEN [CliExit("Data validation errors:") EXCEPT !.data = loaded.value]
             ELSE [cli EXCEPT !.pc = "loaded", !.data = loaded.value]
    /\ UNCHANGED <<config, last_result, call, ref, params, latest, manager>>

\* lines 174-183: results = evaluator.evaluate(data)
CliEvaluate ==
    /\ cli.pc = "loaded"
    /\ LET data == cli.data[1]
           r == evaluate(data, config)
       IN  /\ last_result' = IF r.status = "ok" THEN r.value ELSE last_result
           /\ call' = [op |-> "evaluate", args |-> <<data>>, cfg |-> config,
                       fresh |-> (last_result = <<>>),
                       status |-> r.status, error |-> r.error, value |-> r.value]
           /\ latest' = IF r.status = "ok" THEN r.value ELSE latest
           /\ cli' = IF r.status = "ok"
                     THEN [cli EXCEPT !.pc = "evaluated", !.results = r.value]
                     ELSE CliExit("Error during evaluation")
    /\ UNCHANGED <<config, ref, params, manager>>

\* lines 249-263, with --matplotlib: results['config'] and results['metrics']
\* are stored into the dictionary evaluate returned, that is into
\* self._last_result; the metrics are computed after the config entry is set
CliPlot ==
    /\ cli.pc = "evaluated"
    /\ cli.args.matplotlib
    /\ LET with_config ==
               Updated(cli.results[1],
                       [config |-> export_section(cli.cm, "evaluation")])
           metrics == compute_advanced_metrics(with_config, config)
           with_metrics == Updated(with_config, [metrics |-> metrics])
       IN  /\ cli' = [cli EXCEPT !.pc = "plotted", !.results = <<with_metrics>>]
           /\ last_result' = <<with_metrics>>
           /\ call' = [op |-> "get_detailed_metrics", args |-> <<>>, cfg |-> config,
                       fresh |-> FALSE, status |-> "ok", error |-> "",
                       value |-> <<metrics>>]
    /\ UNCHANGED <<config, ref, params, latest, manager>>

\* lines 347-402: the results are written and printed, main returns 0
CliFinish ==
    /\ \/ cli.pc = "evaluated" /\ ~cli.args.matplotlib
       \/ cli.pc = "plotted"
    /\ cli' = [cli EXCEPT !.pc = "done", !.code = 0]
    /\ UNCHANGED <<config, last_result, call, ref, params, latest, manager>>

NextCli == CliConfigure \/ CliLoad \/ CliEvaluate \/ CliPlot \/ CliFinish

\* one run of the command line program
SpecCli == InitCli /\ [][NextCli]_vars

(***************************************************************************)
(* The unified command line program, the evaluate command of main() of     *)
(* flare.py.  cli holds its position (start, configured, done or exit),    *)
(* the parsed command line and the exit status.  An option of the command  *)
(* line is <<>> when it was not given; argparse then supplies the default  *)
(* of the option.  Plotting and the output file are not modelled.          *)
(***************************************************************************)
\* _get_config_from_preset(preset)
_get_config_from_preset(preset) ==
    LET presets ==
          [smartphone |-> [pixel_pitch_um |-> Q(122, 100), offset |-> 64,
                           signal_threshold |-> 10],
           mirrorless |-> [pixel_pitch_um |-> Q(376, 100), offset |-> 64,
                           signal_threshold |-> 10],
           dslr |-> [pixel_pitch_um |-> Q(672, 100), offset |-> 100,
                     signal_threshold |-> 15],
           scientific |-> [pixel_pitch_um |-> Q(45, 10), offset |-> 200,
                           signal_threshold |-> 20, bit_depth |-> 16]]
    IN  Get(presets, preset, <<>>)

\* args.<option> after parse_args: the value given, else the option's default
Parsed(option, default) == IF option # <<>> THEN option[1] ELSE default

FrontArgs ==
    [preset : {<<>>, <<"smartphone">>, <<"dslr">>, <<"scientific">>},
     pixel_pitch : {<<>>, <<FromInt(5)>>},
     bit_depth : {<<>>},
     offset : {<<>>, <<100>>},
     signal_threshold : {<<>>, <<36>>},
     direct_threshold : {<<>>},
     light_threshold : {<<>>, <<500>>},
     beta : {<<>>},
     config : {<<>>, <<[light_threshold |-> 900, beta_coverage |-> One]>>},
     input : {<< <<"100", "1000">>, <<"500", "100">> >>, << <<"64", "x">> >>}]

\* main has parsed the command line of `flare.py evaluate`
InitFront ==
    /\ cli \in [pc : {"start"}, args : FrontArgs, code : {-1}, stderr : {""}]
    /\ config = <<>>
    /\ last_result = <<>>
    /\ call = [op |-> "none", args |-> <<>>, cfg |-> <<>>, fresh |-> TRUE,
               status |-> "ok", error |-> "", value |-> <<>>]
    /\ ref = <<>>
    /\ params = [passed |-> <<>>, dict |-> <<>>]
    /\ latest = <<>>
    /\ manager = NoManager

\* lines 159-182: the preset, then the command line, then the configuration
\* file; the evaluator is created with the dictionary
FrontConfigure ==
    /\ cli.pc = "start"
    /\ LET args == cli.args
           preset == IF args.preset # <<>>
                     THEN _get_config_from_preset(args.preset[1])
                     ELSE <<>>
           bit_depth == Parsed(args.bit_depth, 10)
           overridden ==
               Updated(preset,
                       [pixel_pitch_um |-> Parsed(args.pixel_pitch, Q(24, 10)),
                        offset |-> Parsed(args.offset, 64),
                        signal_threshold |-> Parsed(args.signal_threshold, 10),
                        direct_illumination_threshold |->
                            Parsed(args.direct_threshold, 400),
                        light_threshold |-> Parsed(args.light_threshold, 600),
                        beta_coverage |-> Parsed(args.beta, Q(1, 2)),
                        bit_depth |-> bit_depth,
                        max_value |-> Pow2(bit_depth) - 1])
           cfg == IF args.config # <<>>
                  THEN Updated(overridden, args.config[1])
                  ELSE overridden
       IN  /\ cli' = [cli EXCEPT !.pc = "configured"]
           /\ config' = InitConfig(<<cfg>>)
           /\ call' = [op |-> "__init__", args |-> <<cfg>>, cfg |-> config',
                       fresh |-> TRUE, status |-> "ok", error |-> "", value |-> <<>>]
           /\ params' = [passed |-> <<cfg>>, dict |-> <<cfg>>]
    /\ last_result' = <<>>
    /\ UNCHANGED <<ref, latest, manager>>

\* lines 189-193: results = evaluator.evaluate_file(args.input), any
\* exception ending the run with status 1; then the results are shown
FrontEvaluate ==
    /\ cli.pc = "configured"
    /\ LET loaded == load_csv(cli.args.input)
           r == IF loaded.status = "ok" THEN evaluate(loaded.value[1], config)
                ELSE loaded
       IN  /\ last_result' = IF r.status = "ok" THEN r.value ELSE last_result
           /\ call' = [op |-> "evaluate_file", args |-> <<cli.args.input>>,
                       cfg |-> config, fresh |-> (last_result = <<>>),
                       status |-> r.status, error |-> r.error, value |-> r.value]
           /\ latest' = IF r.status = "ok" THEN r.value ELSE latest
           /\ cli' = IF r.status = "ok"
                     THEN [cli EXCEPT !.pc = "done", !.code = 0]
                     ELSE [cli EXCEPT !.pc = "exit", !.code = 1,
                                      !.stderr = "Error evaluating data"]
    /\ UNCHANGED <<config, ref, params, manager>>

NextFront == FrontConfigure \/ FrontEvaluate

SpecFront == InitFront /\ [][NextFront]_vars

(***************************************************************************)
(* compute_advanced_metrics as a function of its inputs: applied once to   *)
(* a result dictionary with any of the legacy flare values and coverage    *)
(* percentages below, the other entries those of Scenario B.               *)
(***************************************************************************)
\* flare_value entries: negative, zero, values that put quality_index on a
\* grade boundary, and values at and beyond the clamp at 100
FlareValues ==
    {Q(-50, 1), Zero, Q(25, 3), Q(50, 3), Q(25, 1), Q(100, 3), Q(50, 1),
     Q(200, 3), Q(100, 1), Q(150, 1)}

\* flare_coverage_percent entries
CoveragePercents ==
    {Zero, Q(25, 2), Q(25, 1), Q(50, 1), Q(75, 1), Q(100, 1)}

ResultWith(fv, cp) ==
    [evaluate(ScenarioB, _default_config).value[1]
        EXCEPT !.flare_value = fv, !.flare_coverage_percent = cp]

InitMetrics ==
    /\ \E fv \in FlareValues : \E cp \in CoveragePercents :
          call = [op |-> "input", args |-> <<ResultWith(fv, cp), _default_config>>,
                  cfg |-> _default_config, fresh |-> TRUE,
                  status |-> "ok", error |-> "", value |-> <<>>]
    /\ config = _default_config
    /\ last_result = <<>>
    /\ ref = <<>>
    /\ params = [passed |-> <<>>, dict |-> <<>>]
    /\ latest = <<>>
    /\ cli = NoCli
    /\ manager = NoManager

\* FlareMetrics().compute_advanced_metrics(result, config)
ComputeAdvancedMetrics ==
    /\ call.op = "input"
    /\ call' = [call EXCEPT
                  !.op = "compute_advanced_metrics",
                  !.value = <<compute_advanced_metrics(call.args[1], call.args[2])>>]
    /\ UNCHANGED <<config, last_result, ref, params, latest, cli, manager>>

NextMetrics == ComputeAdvancedMetrics

SpecMetrics == InitMetrics /\ [][NextMetrics]_vars

(***************************************************************************)
(* ConfigManager objects.  DEFAULT_CONFIG is a class attribute: one dict   *)
(* whose values are the section dicts.  dict.copy() copies one level, so a *)
(* copy of DEFAULT_CONFIG holds the class's own section dicts.             *)
(*   manager.defaults  what the section dicts of the class attribute hold  *)
(*                     now                                                 *)
(*   manager.config    self.config of the instance in use: for each        *)
(*                     top-level key a slot, either the class's section    *)
(*                     dict of that key (shared) or an object of the       *)
(*                     instance's own, a dict or a plain value             *)
(* A key is a sequence of one or two names, 'sensor.bit_depth' being       *)
(* <<"sensor", "bit_depth">>; the entries of a section are plain values.   *)
(* None is encoded as an integer that no setting takes.                    *)
(***************************************************************************)
None == -2000000

Shared == [shared |-> TRUE, kind |-> "dict"]
OwnDict(d) == [shared |-> FALSE, kind |-> "dict", value |-> d]
OwnValue(v) == [shared |-> FALSE, kind |-> "value", value |-> v]

\* DEFAULT_CONFIG.copy(): a new top level holding the class's section dicts
CopyOfDefaults == [k \in DOMAIN DEFAULT_CONFIG |-> Shared]

\* the object that the top-level key k of the slots holds
Held(m, slots, k) == IF slots[k].shared THEN m.defaults[k] ELSE slots[k].value

\* d[k] = v
Put(d, k, v) == [n \in DOMAIN d \cup {k} |-> IF n = k THEN v ELSE d[n]]

\* ConfigManager.get(key, default)
get(m, key, default) ==
    LET k == key[1]
    IN  IF k \notin DOMAIN m.config THEN default
        ELSE IF Len(key) = 1 THEN Held(m, m.config, k)
        ELSE IF m.config[k].kind = "dict" /\ key[2] \in DOMAIN Held(m, m.config, k)
        THEN Held(m, m.config, k)[key[2]]
        ELSE default

\* variant: the section is replaced by a new dict holding the one entry
setFreshSection(m, key, value) ==
    [status |-> "ok", error |-> "",
     manager |-> [m EXCEPT !.config =
                     Put(m.config, key[1], OwnDict(Put(<<>>, key[2], value)))]]

\* ConfigManager.set(key, value): the manager afterwards.  The section dict
\* is assigned to in place, whichever object it is.
set(m, key, value) ==
    LET k == key[1]
        created == IF k \in DOMAIN m.config THEN m
                   ELSE [m EXCEPT !.config = Put(m.config, k, OwnDict(<<>>))]
    IN  IF Len(key) = 1
        THEN [status |-> "ok", error |-> "",
              manager |-> [m EXCEPT !.config = Put(m.config, k, OwnValue(value))]]
        ELSE IF created.config[k].kind # "dict"
        THEN [status |-> "raised", error |-> "TypeError", manager |-> m]
        ELSE IF created.config[k].shared
        THEN [status |-> "ok", error |-> "",
              manager |-> [m EXCEPT !.defaults[k] = Put(m.defaults[k], key[2], value)]]
        ELSE [status |-> "ok", error |-> "",
              manager |-> [created EXCEPT !.config[k] =
                              OwnDict(Put(created.config[k].value, key[2], value))]]

\* _deep_merge(base, updates) on objects: the result is a copy of the top
\* level of base; a section present as a dict on both sides becomes a new
\* merged dict, any other entry of updates replaces, and an entry that
\* updates does not name stays the object it was
MergeSlots(m, base, updates) ==
    [k \in DOMAIN base \cup DOMAIN updates |->
        IF k \notin DOMAIN updates THEN base[k]
        ELSE IF k \in DOMAIN base /\ base[k].kind = "dict" /\ updates[k].kind = "dict"
        THEN OwnDict(Updated(Held(m, base, k), updates[k].value))
        ELSE [shared |-> FALSE, kind |-> updates[k].kind, value |-> updates[k].value]]

\* ConfigManager.update(updates)
update(m, updates) == [m EXCEPT !.config = MergeSlots(m, m.config, updates)]

\* ConfigManager.load(path), loaded being the parsed file
load(m, loaded) == [m EXCEPT !.config = MergeSlots(m, CopyOfDefaults, loaded)]

\* ConfigManager.reset(section), <<>> for no section
reset(m, section) ==
    IF section # <<>>
    THEN IF section[1] \in DOMAIN DEFAULT_CONFIG
         THEN [m EXCEPT !.config =
                  Put(m.config, section[1], OwnDict(m.defaults[section[1]]))]
         ELSE m
    ELSE [m EXCEPT !.config = CopyOfDefaults]

SetKeys == {<<"sensor", "bit_depth">>, <<"evaluation", "light_threshold">>, <<"custom", "level">>}
SetValues == {12, 300}
GetKeys == SetKeys \cup {<<"sensor", "offset">>, <<"sensor", "gain">>, <<"absent", "level">>}
GetDefaults == {None, 7}
UpdateDicts == {[sensor |-> [kind |-> "dict", value |-> [bit_depth |-> 14]]], [evaluation |-> [kind |-> "dict", value |-> [light_threshold |-> 500]], version |-> [kind |-> "value", value |-> 2]]}
LoadedFiles == {[sensor |-> [kind |-> "dict", value |-> [offset |-> 32]]]}
ResetArgs == {<<>>, <<"sensor">>, <<"custom">>}

ManagerCall(op, args, status, error, value) ==
    [op |-> op, args |-> args, status |-> status, error |-> error, value |-> value]

\* the class as imported and config = ConfigManager()
InitManager ==
    /\ manager = [defaults |-> DEFAULT_CONFIG, config |-> CopyOfDefaults]
    /\ call = ManagerCall("ConfigManager", <<>>, "ok", "", <<>>)
    /\ config = <<>>
    /\ last_result = <<>>
    /\ ref = <<>>
    /\ params = [passed |-> <<>>, dict |-> <<>>]
    /\ latest = <<>>
    /\ cli = NoCli

\* another config = ConfigManager(); the earlier instance is dropped
CmNew ==
    /\ manager' = [manager EXCEPT !.config = CopyOfDefaults]
    /\ call' = ManagerCall("ConfigManager", <<>>, "ok", "", <<>>)
    /\ UNCHANGED <<config, last_result, ref, params, latest, cli>>

CmGet(key, default) ==
    /\ call' = ManagerCall("get", <<key, default>>, "ok", "", <<get(manager, key, default)>>)
    /\ UNCHANGED <<config, last_result, ref, params, latest, cli, manager>>

CmSet(key, value) ==
    LET r == set(manager, key, value)
    IN  /\ manager' = r.manager
        /\ call' = ManagerCall("set", <<key, value>>, r.status, r.error, <<>>)
        /\ UNCHANGED <<config, last_result, ref, params, latest, cli>>

CmUpdate(updates) ==
    /\ manager' = update(manager, updates)
    /\ call' = ManagerCall("update", <<updates>>, "ok", "", <<>>)
    /\ UNCHANGED <<config, last_result, ref, params, latest, cli>>

CmLoad(loaded) ==
    /\ manager' = load(manager, loaded)
    /\ call' = ManagerCall("load", <<loaded>>, "ok", "", <<>>)
    /\ UNCHANGED <<config, last_result, ref, params, latest, cli>>

CmReset(section) ==
    /\ manager' = reset(manager, section)
    /\ call' = ManagerCall("reset", <<section>>, "ok", "", <<>>)
    /\ UNCHANGED <<config, last_result, ref, params, latest, cli>>

NextManager ==
    \/ CmNew
    \/ \E key \in GetKeys : \E default \in GetDefaults : CmGet(key, default)
    \/ \E key \in SetKeys : \E value \in SetValues : CmSet(key, value)
    \/ \E updates \in UpdateDicts : CmUpdate(updates)
    \/ \E loaded \in LoadedFiles : CmLoad(loaded)
    \/ \E section \in ResetArgs : CmReset(section)

SpecManager == InitManager /\ [][NextManager]_vars

(***************************************************************************)
(* Properties.  The reference quantities are computed from the input array  *)
(* sample by sample, independently of the operators that model the code.   *)
(***************************************************************************)
\* the most recent call is an evaluate call / one that returned a result
Evaluated == call.op = "evaluate"
Returned == Evaluated /\ call.status = "ok"
TheData == call.args[1]
TheCfg == call.cfg
TheResult == call.value[1]

Cells(data) == UNION {{<<i, j>> : j \in 1..Len(data[i])} : i \in 1..Len(data)}
Sample(data, c) == data[c[1]][c[2]]
At(mask, c) == mask[c[1]][c[2]]

\* the lower boundary of the Flare band
SignalLevel(cfg) == cfg.offset + cfg.signal_threshold

\* the band predicates of the documentation, on one sample value
IsBackground(v, cfg) == v <= SignalLevel(cfg)
IsFlare(v, cfg) == SignalLevel(cfg) < v /\ v <= cfg.direct_illumination_threshold
IsDirect(v, cfg) == cfg.direct_illumination_threshold < v /\ v <= cfg.light_threshold
IsLight(v, cfg) == v > cfg.light_threshold

FlareCells(data, cfg) == {c \in Cells(data) : IsFlare(Sample(data, c), cfg)}
DirectCells(data, cfg) == {c \in Cells(data) : IsDirect(Sample(data, c), cfg)}
LightCells(data, cfg) == {c \in Cells(data) : IsLight(Sample(data, c), cfg)}

\* the sum of (value - offset) over a set of cells
RECURSIVE SumAbove(_, _, _)
SumAbove(cells, data, offset) ==
    IF cells = {} THEN 0
    ELSE LET c == CHOOSE x \in cells : TRUE
         IN  (Sample(data, c) - offset) + SumAbove(cells \ {c}, data, offset)

\* the mean of (value - offset) over a non-empty set of cells, per pixel area
RefIntensity(cells, data, cfg) ==
    RDiv(Q(SumAbove(cells, data, cfg.offset), Cardinality(cells)),
         RMul(cfg.pixel_pitch_um, cfg.pixel_pitch_um))

\* membership of a cell in the four band masks of a returned result
InFlareMask(c) == At(TheResult.flare_mask, c) > 0
InDirectMask(c) == At(TheResult.direct_illumination_mask, c)
InLightMask(c) == At(TheResult.light_mask, c)
InBackgroundMask(c) ==
    At(BackgroundMask(TheData, TheCfg.offset, TheCfg.signal_threshold), c)

\* the number of the four masks that contain the cell
MaskCount(c) ==
    (IF InBackgroundMask(c) THEN 1 ELSE 0) + (IF InFlareMask(c) THEN 1 ELSE 0)
    + (IF InDirectMask(c) THEN 1 ELSE 0) + (IF InLightMask(c) THEN 1 ELSE 0)

BackgroundCount ==
    CountTrue(BackgroundMask(TheData, TheCfg.offset, TheCfg.signal_threshold))

\* the four masks partition the array, and the four counts sum to data.size
Partition ==
    /\ \A c \in Cells(TheData) : MaskCount(c) = 1
    /\ BackgroundCount + TheResult.signal_pixel_count
         + TheResult.direct_illumination_pixel_count + TheResult.light_pixel_count
       = Size(TheData)

\* offset + signal_threshold <= direct_illumination_threshold <= light_threshold
ThresholdsOrdered(cfg) ==
    /\ SignalLevel(cfg) <= cfg.direct_illumination_threshold
    /\ cfg.direct_illumination_threshold <= cfg.light_threshold

\* C1 as stated: for every parameter record, with no precondition on the order
\* of the thresholds, the four band masks of a returned result are pairwise
\* disjoint and cover every sample once, and the four counts sum to data.size.
C1_PartitionAnyThresholds == Returned => Partition

\* C1 amended: when offset + signal_threshold <= direct_illumination_threshold
\* <= light_threshold, the four band masks of a returned result are pairwise
\* disjoint and cover every sample exactly once, and the four band counts sum
\* to data.size.
C1_PartitionOrdered == (Returned /\ ThresholdsOrdered(TheCfg)) => Partition

\* an evaluation with ordered thresholds whose array has samples in all four bands
C1_Witness ==
    /\ Returned
    /\ ThresholdsOrdered(TheCfg)
    /\ BackgroundCount > 0
    /\ TheResult.signal_pixel_count > 0
    /\ TheResult.direct_illumination_pixel_count > 0
    /\ TheResult.light_pixel_count > 0

\* C2: ties are resolved toward the lower band.  A sample equal to a boundary
\* is never in the band above it and is in the band below it whenever that
\* band's range is not empty: equal to offset + signal_threshold it is
\* Background and not Flare, equal to direct_illumination_threshold it is
\* Flare and not DirectIllumination, equal to light_threshold it is
\* DirectIllumination and not LightSource.  A sample strictly above a
\* boundary is in no band that ends at or below it.  Two samples of equal
\* value are in the same masks, wherever they are.
C2_TiesTowardLowerBand ==
    Returned =>
      /\ \A c \in Cells(TheData) :
           LET v == Sample(TheData, c)
               T == SignalLevel(TheCfg)
               D == TheCfg.direct_illumination_threshold
               L == TheCfg.light_threshold
           IN  /\ v = T => (InBackgroundMask(c) /\ ~InFlareMask(c))
               /\ v = D => (~InDirectMask(c) /\ (T < D => InFlareMask(c)))
               /\ v = L => (~InLightMask(c) /\ (D < L => InDirectMask(c)))
               /\ v > T => ~InBackgroundMask(c)
               /\ v > D => ~InFlareMask(c)
               /\ v > L => (~InDirectMask(c) /\ InLightMask(c))
               /\ (v > T /\ v <= D) => InFlareMask(c)
               /\ (v > D /\ v <= L) => InDirectMask(c)
      /\ \A c1, c2 \in Cells(TheData) :
           Sample(TheData, c1) = Sample(TheData, c2) =>
             /\ InFlareMask(c1) = InFlareMask(c2)
             /\ InDirectMask(c1) = InDirectMask(c2)
             /\ InLightMask(c1) = InLightMask(c2)

\* an evaluation of an array that holds a sample on the direct-illumination
\* boundary, found in the Flare mask, and a sample on the light boundary, found
\* in the DirectIllumination mask
C2_Witness ==
    /\ Returned
    /\ \E c1, c2 \in Cells(TheData) :
         /\ Sample(TheData, c1) = TheCfg.direct_illumination_threshold
         /\ InFlareMask(c1)
         /\ Sample(TheData, c2) = TheCfg.light_threshold
         /\ InDirectMask(c2)

\* C3: F_raw = S / (N_flare * pixel_pitch^2) when N_flare > 0, with N_flare
\* the number of Flare-band samples and S the sum of (value - offset) over
\* them, and F_raw = 0 when N_flare = 0.
C3_FRaw ==
    Returned =>
      LET flare == FlareCells(TheData, TheCfg)
      IN  TheResult.F_raw =
            IF flare # {} THEN RefIntensity(flare, TheData, TheCfg) ELSE Zero

\* an evaluation with several Flare samples and a pixel area other than 1
C3_Witness ==
    /\ Returned
    /\ Cardinality(FlareCells(TheData, TheCfg)) > 1
    /\ TheCfg.pixel_pitch_um # One
    /\ TheResult.F_raw # Zero

\* the denominator evaluate chooses for F_norm: the DirectIllumination band's
\* intensity, or the LightSource band's when DirectIllumination is empty
HasReference(data, cfg) == DirectCells(data, cfg) # {} \/ LightCells(data, cfg) # {}
ReferenceIntensity(data, cfg) ==
    IF DirectCells(data, cfg) # {}
    THEN RefIntensity(DirectCells(data, cfg), data, cfg)
    ELSE RefIntensity(LightCells(data, cfg), data, cfg)

\* C4: F_norm = flare_intensity / direct_intensity when N_flare > 0,
\* N_direct > 0 and direct_intensity > 0; F_norm = 0 when N_flare = 0, when
\* the DirectIllumination and LightSource bands are both empty, and when the
\* chosen denominator is 0; F_norm is not 0 in any other way.
C4_FNorm ==
    Returned =>
      LET flare == FlareCells(TheData, TheCfg)
          direct == DirectCells(TheData, TheCfg)
      IN  /\ (flare # {} /\ direct # {}
               /\ RLess(Zero, RefIntensity(direct, TheData, TheCfg)))
             => TheResult.F_norm = RDiv(RefIntensity(flare, TheData, TheCfg),
                                        RefIntensity(direct, TheData, TheCfg))
          /\ flare = {} => TheResult.F_norm = Zero
          /\ ~HasReference(TheData, TheCfg) => TheResult.F_norm = Zero
          /\ (flare # {} /\ HasReference(TheData, TheCfg)
               /\ ReferenceIntensity(TheData, TheCfg) = Zero)
             => TheResult.F_norm = Zero

\* an evaluation with Flare and DirectIllumination samples, a positive direct
\* intensity and a pixel area other than 1
C4_Witness ==
    /\ Returned
    /\ FlareCells(TheData, TheCfg) # {}
    /\ DirectCells(TheData, TheCfg) # {}
    /\ RLess(Zero, RefIntensity(DirectCells(TheData, TheCfg), TheData, TheCfg))
    /\ TheCfg.pixel_pitch_um # One
    /\ TheResult.F_norm # Zero

\* C5: with N_flare > 0, N_direct = 0 and N_light > 0 the denominator of
\* F_norm is the LightSource band's mean (value - offset) per pixel area;
\* with N_direct > 0 the denominator is the DirectIllumination band's, also
\* when the LightSource band has samples.
C5_LightFallback ==
    Returned =>
      LET flare == FlareCells(TheData, TheCfg)
          direct == DirectCells(TheData, TheCfg)
          light == LightCells(TheData, TheCfg)
          Ratio(cells) ==
              IF RLess(Zero, RefIntensity(cells, TheData, TheCfg))
              THEN RDiv(RefIntensity(flare, TheData, TheCfg),
                        RefIntensity(cells, TheData, TheCfg))
              ELSE Zero
      IN  /\ (flare # {} /\ direct = {} /\ light # {})
             => TheResult.F_norm = Ratio(light)
          /\ (flare # {} /\ direct # {}) => TheResult.F_norm = Ratio(direct)

\* an evaluation that used the fallback: Flare and LightSource samples, no
\* DirectIllumination sample, and a non-zero F_norm
C5_Witness ==
    /\ Returned
    /\ FlareCells(TheData, TheCfg) # {}
    /\ DirectCells(TheData, TheCfg) = {}
    /\ LightCells(TheData, TheCfg) # {}
    /\ TheResult.F_norm # Zero

\* the parameters of Scenario B: the default black level and thresholds
ScenarioParams(cfg) ==
    /\ cfg.offset = DefaultOffset
    /\ cfg.signal_threshold = DefaultSignalThreshold
    /\ cfg.direct_illumination_threshold = DefaultDirectIlluminationThreshold
    /\ cfg.light_threshold = DefaultLightThreshold

\* C6: F_final = F_norm * (N_flare / data.size) ** beta_coverage; for the 4x4
\* array with one Flare sample 100, one DirectIllumination sample 500 and one
\* LightSource sample 1000 and offset 64: N_flare = N_direct = N_light = 1,
\* F_raw = 36 / pixel_area, F_norm = 36 / 436, F_final = F_norm * (1/16) ** beta.
C6_FFinal ==
    Returned =>
      /\ TheResult.F_final =
           PwScale(TheResult.F_norm,
                   Pow(Q(Cardinality(FlareCells(TheData, TheCfg)), Size(TheData)),
                       TheCfg.beta_coverage))
      /\ (TheData = ScenarioB /\ ScenarioParams(TheCfg)) =>
           /\ TheResult.signal_pixel_count = 1
           /\ TheResult.direct_illumination_pixel_count = 1
           /\ TheResult.light_pixel_count = 1
           /\ TheResult.F_raw =
                RDiv(FromInt(36), RMul(TheCfg.pixel_pitch_um, TheCfg.pixel_pitch_um))
           /\ TheResult.F_norm = Q(36, 436)
           /\ TheResult.F_final =
                PwScale(Q(36, 436), Pow(Q(1, 16), TheCfg.beta_coverage))

\* Scenario B evaluated with an exponent that is neither 0 nor 1
C6_Witness ==
    /\ Returned
    /\ TheData = ScenarioB
    /\ ScenarioParams(TheCfg)
    /\ TheCfg.beta_coverage \notin {Zero, One}
    /\ TheResult.F_final # PwRat(TheResult.F_norm)

\* C7: for every non-empty array whose Flare band is empty and every parameter
\* record, evaluate raises no exception and returns F_raw = F_norm = F_final = 0.
C7_EmptyFlareAllZero ==
    (Evaluated /\ Size(TheData) > 0 /\ FlareCells(TheData, TheCfg) = {}) =>
      /\ call.status = "ok"
      /\ TheResult.F_raw = Zero
      /\ TheResult.F_norm = Zero
      /\ TheResult.F_final = PwRat(Zero)

\* C8: an evaluate call with the data and the parameters of an earlier evaluate
\* call on the same evaluator has the same outcome, whatever calls were made
\* before the first or between the two.
C8_HistoryFree ==
    (Evaluated /\ ref # <<>> /\ call.args = ref[1].args /\ call.cfg = ref[1].cfg) =>
      /\ call.status = ref[1].status
      /\ call.error = ref[1].error
      /\ call.value = ref[1].value

\* an evaluate call that returned on an evaluator with a cached result, with the
\* data and parameters of the remembered call, which ran on a new evaluator
C8_Witness ==
    /\ Returned
    /\ ref # <<>>
    /\ call.args = ref[1].args
    /\ call.cfg = ref[1].cfg
    /\ ref[1].fresh
    /\ ~call.fresh

\* the light thresholds compared with the one of the call
LightAlternatives == Values \cup {64, 500, 600}

\* the LightSource and DirectIllumination counts evaluate computes for the
\* data with light threshold l, the other parameters as in cfg
NLight(data, l) == CountTrue(LightMask(data, l))
NDirect(data, cfg, l) ==
    CountTrue(DirectIlluminationMask(data, cfg.direct_illumination_threshold, l))

LightMonotone(data, cfg) ==
    \A l2 \in LightAlternatives :
       cfg.light_threshold <= l2 =>
         /\ NLight(data, l2) <= NLight(data, cfg.light_threshold)
         /\ NDirect(data, cfg, l2) + NLight(data, l2)
              >= NDirect(data, cfg, cfg.light_threshold)
                   + NLight(data, cfg.light_threshold)

\* C9 as stated: raising light_threshold never increases N_light and never
\* decreases N_direct + N_light, with no ordering of light_threshold relative
\* to direct_illumination_threshold assumed.
C9_MonotoneAnyOrder ==
    Returned =>
      /\ TheResult.light_pixel_count = NLight(TheData, TheCfg.light_threshold)
      /\ TheResult.direct_illumination_pixel_count
           = NDirect(TheData, TheCfg, TheCfg.light_threshold)
      /\ LightMonotone(TheData, TheCfg)

\* C9 amended: for two parameter records that differ only in light_threshold,
\* with direct_illumination_threshold <= l1 <= l2, N_light(l2) <= N_light(l1)
\* and N_direct(l2) + N_light(l2) >= N_direct(l1) + N_light(l1).
C9_MonotoneAboveDirect ==
    (Returned /\ TheCfg.direct_illumination_threshold <= TheCfg.light_threshold) =>
      /\ TheResult.light_pixel_count = NLight(TheData, TheCfg.light_threshold)
      /\ TheResult.direct_illumination_pixel_count
           = NDirect(TheData, TheCfg, TheCfg.light_threshold)
      /\ LightMonotone(TheData, TheCfg)

\* an evaluation with direct_illumination_threshold <= light_threshold whose
\* LightSource count drops when the light threshold is raised
C9_Witness ==
    /\ Returned
    /\ TheCfg.direct_illumination_threshold <= TheCfg.light_threshold
    /\ \E l2 \in LightAlternatives :
         /\ TheCfg.light_threshold < l2
         /\ NLight(TheData, l2) < TheResult.light_pixel_count
         /\ NDirect(TheData, TheCfg, l2) > TheResult.direct_illumination_pixel_count

\* C10: 0 <= coverage_ratio <= 1, and F_final is zero, positive or negative
\* exactly when F_norm is.
C10_CoverageBound ==
    Returned =>
      /\ RLeq(Zero, TheResult.coverage_ratio)
      /\ RLeq(TheResult.coverage_ratio, One)
      /\ PwSign(TheResult.F_final) = RSign(TheResult.F_norm)

\* an evaluation with a negative F_norm and a coverage ratio strictly between
\* 0 and 1
C10_Witness ==
    /\ Returned
    /\ RSign(TheResult.F_norm) < 0
    /\ PwSign(TheResult.F_final) < 0
    /\ RLess(Zero, TheResult.coverage_ratio)
    /\ RLess(TheResult.coverage_ratio, One)

\* the keys of the dictionary evaluate builds
ResultFields ==
    {"flare_value", "sigma_value", "signal_pixel_count", "light_pixel_count",
     "direct_illumination_pixel_count", "pixel_pitch_um",
     "pixel_area_um2", "F_raw", "F_norm", "F_final", "mean_flare_intensity",
     "max_flare_intensity", "flare_coverage_percent",
     "direct_illumination_coverage_percent", "coverage_ratio",
     "coverage_weight", "flare_mask", "light_mask", "direct_illumination_mask"}

\* direct_illumination_threshold <= offset + signal_threshold, or
\* light_threshold below direct_illumination_threshold
Inverted(cfg) ==
    \/ cfg.direct_illumination_threshold <= SignalLevel(cfg)
    \/ cfg.light_threshold < cfg.direct_illumination_threshold

\* C11: with inverted thresholds on a non-empty array, evaluate does not raise
\* and returns a complete result whose band counts are those of the band
\* predicates applied with the thresholds as supplied, and the configuration
\* is still the parameter record that was passed in.
C11_InvertedNoRaise ==
    (Evaluated /\ Size(TheData) > 0 /\ Inverted(TheCfg)) =>
      /\ call.status = "ok"
      /\ DOMAIN TheResult = ResultFields
      /\ TheResult.signal_pixel_count = Cardinality(FlareCells(TheData, TheCfg))
      /\ TheResult.direct_illumination_pixel_count
           = Cardinality(DirectCells(TheData, TheCfg))
      /\ TheResult.light_pixel_count = Cardinality(LightCells(TheData, TheCfg))
      /\ config = params.passed[1]
      /\ TheCfg = params.passed[1]

\* the structuring element of 8-connectivity: edge and corner neighbours
FullStructure == {o \in (-1..1) \X (-1..1) : o # <<0, 0>>}

\* the most recent call is a get_detailed_metrics call that returned metrics
GotMetrics == call.op = "get_detailed_metrics" /\ call.value # <<>>
TheMetrics == call.value[1]

\* C20: num_flare_regions is the number of connected components of the Flare
\* mask under 8-connectivity, so that two Flare samples that touch only
\* diagonally belong to one region.
C20_EightConnectivity ==
    GotMetrics =>
      TheMetrics.spatial.num_flare_regions
        = Len(Regions(Where(Positive(last_result[1].flare_mask)), FullStructure))

\* the parameters evaluate works with when given a configuration section
EffectiveParams(section) ==
    [offset |-> Get(section, "offset", DefaultOffset),
     signal_threshold |-> Get(section, "signal_threshold", DefaultSignalThreshold),
     direct_illumination_threshold |->
         Get(section, "direct_illumination_threshold",
             DefaultDirectIlluminationThreshold),
     light_threshold |-> Get(section, "light_threshold", DefaultLightThreshold),
     pixel_pitch_um |-> Get(section, "pixel_pitch_um", DefaultPixelPitchUm),
     beta_coverage |-> Get(section, "beta_coverage", DefaultBetaCoverage)]

\* offset + signal_threshold >= direct_illumination_threshold, or
\* direct_illumination_threshold >= light_threshold, or pixel pitch <= 0
InvalidParams(cfg) ==
    \/ SignalLevel(cfg) >= cfg.direct_illumination_threshold
    \/ cfg.direct_illumination_threshold >= cfg.light_threshold
    \/ RLeq(cfg.pixel_pitch_um, Zero)

TheSection == export_section(cli.cm, "evaluation")

\* C12: once the command line program has set up its configuration, a
\* configuration that violates the threshold ordering or has a non-positive
\* pixel pitch is reported invalid by ConfigManager.validate and by
\* DataValidator.validate_config, and the program has exited with the
\* configuration errors before an evaluator exists.
C12_InvalidConfigRejected ==
    (cli.pc # "start" /\ InvalidParams(EffectiveParams(TheSection))) =>
      /\ ~validate(cli.cm).valid
      /\ ~validate_config(TheSection).valid
      /\ cli.pc = "exit"
      /\ cli.stderr = "Configuration errors:"
      /\ call.op = "none"

\* some sample of the array is nan
HasNaN(data) == \E c \in Cells(data) : isnan(Sample(data, c))

\* C13: when the command line program has loaded an array that contains nan,
\* it has exited with an error, and no result exists, neither in the program
\* nor cached in the evaluator.
C13_NonFiniteRejected ==
    (cli.pc \in {"loaded", "evaluated", "plotted", "done", "exit"}
     /\ cli.data # <<>> /\ HasNaN(cli.data[1])) =>
      /\ cli.pc = "exit"
      /\ cli.code = 1
      /\ cli.results = <<>>
      /\ last_result = <<>>

\* C14: evaluate applied to an array without samples fails with an error: the
\* call returns no result record, not even a partial one, and the cached last
\* result of the evaluator is what it was before the call.
C14_EmptyArrayFails ==
    [][(call'.op = "evaluate" /\ call' # call /\ Size(call'.args[1]) = 0) =>
         /\ call'.status = "raised"
         /\ call'.error # ""
         /\ call'.value = <<>>
         /\ last_result' = last_result]_vars

\* an evaluate call on an array without samples has failed on an evaluator
\* that holds the result of an earlier call
C14_Witness ==
    /\ Evaluated
    /\ Size(TheData) = 0
    /\ call.status = "raised"
    /\ last_result # <<>>

\* the first part of C15, on one step: a failing evaluate call changes neither
\* the configuration nor the cached last result
FailureKeepsState ==
    (call'.op = "evaluate" /\ call' # call /\ call'.status = "raised") =>
      /\ config' = config
      /\ last_result' = last_result

\* the second part of C15, on one state: an evaluate call that returns after a
\* remembered call has failed returns what a new evaluator with the same
\* configuration returns for the same array
AfterFailureAsFresh ==
    (Returned /\ ref # <<>> /\ ref[1].status = "raised") =>
      /\ evaluate(TheData, TheCfg).status = "ok"
      /\ call.value = evaluate(TheData, TheCfg).value
      /\ last_result = call.value

\* C15: if an evaluate call fails, the configuration and the cached last
\* result are exactly what they were before the call, and a later evaluate
\* call on valid input returns the same result it would return on a fresh
\* evaluator with the same configuration.
C15_FailureIsLocal == [][FailureKeepsState]_vars /\ []AfterFailureAsFresh

\* an evaluate call has returned on an evaluator that holds a cached result and
\* on which an earlier evaluate call failed
C15_Witness ==
    /\ Returned
    /\ ~call.fresh
    /\ ref # <<>>
    /\ ref[1].status = "raised"
    /\ ref[1].cfg = call.cfg

\* C16: get_detailed_metrics returns None, without raising, exactly when no
\* evaluate call has returned on the evaluator; otherwise it returns the
\* advanced metrics of the result of the most recent evaluate call that
\* returned, also when update_config was called after that evaluation.
C16_MetricsOfLatest ==
    call.op = "get_detailed_metrics" =>
      /\ call.status = "ok"
      /\ call.value = <<>> <=> latest = <<>>
      /\ latest # <<>> =>
           call.value = <<compute_advanced_metrics(latest[1], config)>>

\* metrics were returned for a result that differs from the result of a
\* remembered earlier call, after update_config changed the exponent with
\* which that result had been computed
C16_Witness ==
    /\ GotMetrics
    /\ ref # <<>>
    /\ ref[1].status = "ok"
    /\ ref[1].value # latest
    /\ latest[1].coverage_weight.exp # config.beta_coverage
    /\ TheMetrics.basic.affected_pixels = latest[1].signal_pixel_count

\* C17: the parameter dictionary a caller passed to the constructor has the
\* contents it had when it was passed in, after any sequence of evaluate,
\* get_detailed_metrics and update_config calls.
C17_CallerDictUntouched == params.dict = params.passed

\* C18: a result record is never changed after evaluate returned it: the
\* dictionary the command line program holds and the cached last result of the
\* evaluator are what evaluate returned, with the keys evaluate put there.
C18_ResultNeverMutated ==
    cli.results # <<>> =>
      /\ cli.results = latest
      /\ last_result = latest
      /\ DOMAIN last_result[1] = ResultFields

\* the reference grade: boundary values belong to the better grade
ReferenceGrade(quality_index) ==
    CASE RLeq(Q(9, 10), quality_index) -> "A"
      [] RLeq(Q(8, 10), quality_index) /\ RLess(quality_index, Q(9, 10)) -> "B"
      [] RLeq(Q(7, 10), quality_index) /\ RLess(quality_index, Q(8, 10)) -> "C"
      [] RLeq(Q(6, 10), quality_index) /\ RLess(quality_index, Q(7, 10)) -> "D"
      [] RLess(quality_index, Q(6, 10)) -> "F"

\* the reference quality view of a result
ReferenceQuality(result) ==
    LET v == RDiv(result.flare_value, FromInt(100))
        severity_score == IF RLess(v, One) THEN v ELSE One
        coverage_score == RDiv(result.flare_coverage_percent, FromInt(100))
        penalty == RAdd(RMul(Q(6, 10), severity_score), RMul(Q(4, 10), coverage_score))
        quality_index == RSub(One, penalty)
    IN  [severity_score |-> severity_score,
         coverage_score |-> coverage_score,
         quality_index |-> quality_index,
         quality_grade |-> ReferenceGrade(quality_index)]

Computed == call.op = "compute_advanced_metrics"

\* C19: the quality view of compute_advanced_metrics is severity_score =
\* min(flare_value / 100, 1), coverage_score = flare_coverage_percent / 100,
\* quality_index = 1 - (0.6 * severity_score + 0.4 * coverage_score), and the
\* grade A, B, C, D from 0.9, 0.8, 0.7, 0.6 upward, F below, a boundary value
\* getting the better grade.
C19_QualityView ==
    Computed => call.value[1].quality = ReferenceQuality(call.args[1])

\* a quality view exactly on the boundary between the grades C and D, which
\* got the grade C
C19_Witness ==
    /\ Computed
    /\ call.value[1].quality.severity_score = Q(1, 2)
    /\ call.value[1].quality.coverage_score = Zero
    /\ call.value[1].quality.quality_index = Q(7, 10)
    /\ call.value[1].quality.quality_grade = "C"

\* pixel pitches to compare an evaluation against, all positive
PitchAlternatives == {Q(1, 2), One, Q(12, 5), FromInt(3)}

\* what in a result may not depend on the pixel pitch
PitchFree(result) ==
    [F_norm |-> result.F_norm,
     F_final |-> result.F_final,
     coverage_ratio |-> result.coverage_ratio,
     coverage_weight |-> result.coverage_weight,
     signal_pixel_count |-> result.signal_pixel_count,
     direct_illumination_pixel_count |-> result.direct_illumination_pixel_count,
     light_pixel_count |-> result.light_pixel_count,
     flare_mask |-> result.flare_mask,
     direct_illumination_mask |-> result.direct_illumination_mask,
     light_mask |-> result.light_mask]

WithPitch(cfg, p) == [cfg EXCEPT !.pixel_pitch_um = p]

\* C21: evaluating the same array under a parameter record that differs only
\* in its positive pixel pitch returns too, with the same F_norm, F_final,
\* band counts and masks.
C21_PitchIndependent ==
    Returned =>
      \A p \in PitchAlternatives :
         LET other == evaluate(TheData, WithPitch(TheCfg, p))
         IN  /\ other.status = "ok"
             /\ PitchFree(other.value[1]) = PitchFree(TheResult)

\* a result with a positive F_norm whose F_raw is another one at pitch 3
C21_Witness ==
    /\ Returned
    /\ RLess(Zero, TheResult.F_norm)
    /\ TheCfg.pixel_pitch_um = Q(12, 5)
    /\ evaluate(TheData, WithPitch(TheCfg, FromInt(3))).value[1].F_raw # TheResult.F_raw
    /\ evaluate(TheData, WithPitch(TheCfg, FromInt(3))).value[1].F_norm = TheResult.F_norm

\* the settings a ConfigManager is asked for, as the source text of
\* DEFAULT_CONFIG gives them
BuiltIn(key) ==
    IF key[1] \in DOMAIN DEFAULT_CONFIG /\ key[2] \in DOMAIN DEFAULT_CONFIG[key[1]]
    THEN DEFAULT_CONFIG[key[1]][key[2]]
    ELSE None

\* C22: whatever was set, updated, loaded or reset before, the class's
\* defaults hold what the source text gives, and right after ConfigManager()
\* or reset() every setting of the instance is its built-in default.
C22_DefaultsNeverAltered ==
    /\ manager.defaults = DEFAULT_CONFIG
    /\ (call.op = "ConfigManager" \/ (call.op = "reset" /\ call.args[1] = <<>>)) =>
          \A key \in GetKeys : get(manager, key, None) = BuiltIn(key)

\* whether the instance holds a setting under the two-name key, and which,
\* read off the objects
Present(m, key) ==
    /\ key[1] \in DOMAIN m.config
    /\ m.config[key[1]].kind = "dict"
    /\ key[2] \in DOMAIN (IF m.config[key[1]].shared THEN m.defaults[key[1]]
                          ELSE m.config[key[1]].value)
Stored(m, key) ==
    IF m.config[key[1]].shared THEN m.defaults[key[1]][key[2]]
    ELSE m.config[key[1]].value[key[2]]

SetKeepsOthers ==
    (call'.op = "set" /\ call'.status = "ok") =>
       /\ Present(manager', call'.args[1])
       /\ Stored(manager', call'.args[1]) = call'.args[2]
       /\ \A k \in GetKeys \ {call'.args[1]} :
             /\ Present(manager', k) = Present(manager, k)
             /\ Present(manager, k) => Stored(manager', k) = Stored(manager, k)

GetReturnsStored ==
    call.op = "get" =>
       call.value[1] = IF Present(manager, call.args[1])
                       THEN Stored(manager, call.args[1])
                       ELSE call.args[2]

C24_ZeroCoverageZeroWeight ==
    (Evaluated /\ Size(TheData) > 0 /\ FlareCells(TheData, TheCfg) = {}) =>
       /\ Returned
       /\ TheResult.coverage_ratio = Zero
       /\ TheResult.coverage_weight = PwRat(Zero)

GotDetailed == call.op = "get_detailed_metrics" /\ call.value # <<>>
InUnit(r) == RLeq(Zero, r) /\ RLeq(r, One)

\* C25: the quality view computed from any result evaluate returns has its
\* severity_score, its coverage_score and its quality_index in [0, 1].
C25_ScoresInUnit ==
    GotDetailed =>
       /\ InUnit(call.value[1].quality.severity_score)
       /\ InUnit(call.value[1].quality.coverage_score)
       /\ InUnit(call.value[1].quality.quality_index)

\* C26: for a result without a Flare sample, get_detailed_metrics returns
\* without an error, and in what compute_advanced_metrics made of the result
\* intensity_ratio, num_flare_regions, max_region_size, mean_region_size and
\* the concentration score spatial_distribution are all 0.
C26_EmptyBandMetrics ==
    (call.op = "get_detailed_metrics" /\ last_result # <<>>
        /\ last_result[1].signal_pixel_count = 0) =>
       /\ call.status = "ok"
       /\ call.value # <<>>
       /\ call.value[1].statistical.intensity_ratio = Zero
       /\ call.value[1].spatial.num_flare_regions = 0
       /\ call.value[1].spatial.max_region_size = 0
       /\ call.value[1].spatial.mean_region_size = Zero
       /\ call.value[1].spatial.spatial_distribution = Zero

\* the detailed metrics of a 4x4 result with a light-source and a
\* direct-illumination sample and no Flare sample
C26_Witness ==
    /\ GotDetailed
    /\ last_result[1].signal_pixel_count = 0
    /\ last_result[1].light_pixel_count = 1
    /\ last_result[1].direct_illumination_pixel_count = 1
    /\ Len(last_result[1].flare_mask) = 4
    /\ call.value[1].spatial.num_flare_regions = 0

\* a shard of the array: the samples of some of its cells, as one row in
\* row-major order
RECURSIVE ShardRow(_, _)
ShardRow(data, cells) ==
    IF cells = {} THEN <<>>
    ELSE LET c == RasterFirst(cells)
         IN  <<Sample(data, c)>> \o ShardRow(data, cells \ {c})
Shard(data, cells) == <<ShardRow(data, cells)>>

\* the ways an array is cut into two shards: any set of cells against the
\* rest for an array of up to MaxCells samples, any set of rows against the
\* rest for a larger one
Splits(data) ==
    IF Size(data) <= MaxCells THEN SUBSET Cells(data)
    ELSE {{c \in Cells(data) : c[1] \in rows} : rows \in SUBSET (1..Len(data))}

\* what one worker computes of its shard, with the masks and sums of evaluate
Aggregates(data, cfg) ==
    LET flare == PixelsAboveOffset(data, FlareCondition(data, cfg.offset, cfg.signal_threshold, cfg.direct_illumination_threshold), cfg.offset)
        direct == PixelsAboveOffset(data, DirectIlluminationMask(data, cfg.direct_illumination_threshold, cfg.light_threshold), cfg.offset)
        light == PixelsAboveOffset(data, LightMask(data, cfg.light_threshold), cfg.offset)
    IN  [size |-> Size(data),
         n_flare |-> Len(flare), s_flare |-> SumSeq(flare),
         n_direct |-> Len(direct), s_direct |-> SumSeq(direct),
         n_light |-> Len(light), s_light |-> SumSeq(light),
         max_flare |-> IF Len(flare) > 0 THEN MaxSeq(flare) ELSE 0]

\* the reduction of two shards' aggregates
Reduced(a, b) ==
    [size |-> a.size + b.size,
     n_flare |-> a.n_flare + b.n_flare, s_flare |-> a.s_flare + b.s_flare,
     n_direct |-> a.n_direct + b.n_direct, s_direct |-> a.s_direct + b.s_direct,
     n_light |-> a.n_light + b.n_light, s_light |-> a.s_light + b.s_light,
     max_flare |-> IF a.max_flare > b.max_flare THEN a.max_flare ELSE b.max_flare]

\* the three metrics from aggregates alone
MetricsOf(agg, cfg) ==
    LET area == RMul(cfg.pixel_pitch_um, cfg.pixel_pitch_um)
        Mean(s, n) == RDiv(Q(s, n), area)
        Ratio(s, n) == IF RLess(Zero, Mean(s, n))
                       THEN RDiv(Mean(agg.s_flare, agg.n_flare), Mean(s, n))
                       ELSE Zero
        F_norm == IF agg.n_flare > 0 /\ agg.n_direct > 0
                  THEN Ratio(agg.s_direct, agg.n_direct)
                  ELSE IF agg.n_flare > 0 /\ agg.n_light > 0
                  THEN Ratio(agg.s_light, agg.n_light)
                  ELSE Zero
    IN  [F_raw |-> IF agg.n_flare > 0 THEN Mean(agg.s_flare, agg.n_flare) ELSE Zero,
         F_norm |-> F_norm,
         F_final |-> PwScale(F_norm, Pow(Q(agg.n_flare, agg.size), cfg.beta_coverage))]

\* the reduced aggregates of a split agree with the evaluation of the whole
\* in the counts, the sums and the three metrics
SumsAgree(r) ==
    LET m == MetricsOf(r, TheCfg)
    IN  /\ r = [Aggregates(TheData, TheCfg) EXCEPT !.max_flare = r.max_flare]
        /\ r.n_flare = TheResult.signal_pixel_count
        /\ r.s_flare = TheResult.sigma_value
        /\ r.n_direct = TheResult.direct_illumination_pixel_count
        /\ r.n_light = TheResult.light_pixel_count
        /\ m.F_raw = TheResult.F_raw
        /\ m.F_norm = TheResult.F_norm
        /\ m.F_final = TheResult.F_final

ReducedSplit(cells) ==
    Reduced(Aggregates(Shard(TheData, cells), TheCfg),
            Aggregates(Shard(TheData, Cells(TheData) \ cells), TheCfg))

\* C27 as stated: for every parameter record and every split of the array
\* into two shards, the counts, sums and metrics from the reduced aggregates
\* are those of the whole, and the larger of the two shards' maximum flare
\* intensities is the maximum flare intensity of the whole.
C27_ShardingAnyParams ==
    Returned =>
      \A cells \in Splits(TheData) :
         LET r == ReducedSplit(cells)
         IN  SumsAgree(r) /\ r.max_flare = TheResult.max_flare_intensity

\* C27: the same for parameter records with signal_threshold >= 0, where
\* every Flare sample lies above the offset.
C27_Sharding ==
    (Returned /\ TheCfg.signal_threshold >= 0) =>
      \A cells \in Splits(TheData) :
         LET r == ReducedSplit(cells)
         IN  SumsAgree(r) /\ r.max_flare = TheResult.max_flare_intensity

\* a split with Flare samples in both shards and another with the Flare
\* samples on one side
C27_Witness ==
    /\ Returned
    /\ TheCfg.signal_threshold >= 0
    /\ RLess(Zero, TheResult.F_norm)
    /\ \E cells \in Splits(TheData) :
          /\ Aggregates(Shard(TheData, cells), TheCfg).n_flare > 0
          /\ Aggregates(Shard(TheData, cells), TheCfg).n_direct = 0
          /\ Aggregates(Shard(TheData, Cells(TheData) \ cells), TheCfg).n_flare = 0
          /\ Aggregates(Shard(TheData, Cells(TheData) \ cells), TheCfg).n_direct > 0

\* the parameters a front end takes from the command line, with the option
\* that sets each
FrontOptions ==
    [pixel_pitch_um |-> "pixel_pitch", offset |-> "offset",
     signal_threshold |-> "signal_threshold",
     direct_illumination_threshold |-> "direct_threshold",
     light_threshold |-> "light_threshold", beta_coverage |-> "beta",
     bit_depth |-> "bit_depth"]

\* C28: in a run of `flare.py evaluate` with a preset and no configuration
\* file, the evaluator is created with the preset's value for every parameter
\* of the preset whose option was not given on the command line.
C28_PresetUsed ==
    (cli.pc = "configured" /\ cli.args.preset # <<>> /\ cli.args.config = <<>>) =>
       LET preset == _get_config_from_preset(cli.args.preset[1])
       IN  \A name \in DOMAIN preset :
              cli.args[FrontOptions[name]] = <<>> => config[name] = preset[name]

Validated == call.op = "validate_results"

\* C29: a result evaluate returned under parameters with offset >= 0 and
\* signal_threshold >= 0 passes validate_results: it has the entries
\* flare_value, sigma_value and signal_pixel_count, the count and sigma_value
\* are not negative, and flare_value is 0 when the count is.
C29_ResultsValid ==
    (Validated /\ call.cfg.offset >= 0 /\ call.cfg.signal_threshold >= 0) =>
       /\ call.value[1] = TRUE
       /\ {"flare_value", "sigma_value", "signal_pixel_count"} \subseteq DOMAIN call.args[1]
       /\ call.args[1].signal_pixel_count >= 0
       /\ call.args[1].sigma_value >= 0
       /\ call.args[1].signal_pixel_count = 0 => call.args[1].flare_value = Zero

\* a validated result without a Flare sample, its sigma_value being 0
C29_Witness ==
    /\ Validated
    /\ call.cfg.offset >= 0
    /\ call.cfg.signal_threshold >= 0
    /\ call.value[1] = TRUE
    /\ call.args[1].signal_pixel_count = 0
    /\ call.args[1].light_pixel_count > 0

\* the parameter records of the documented domain
ValidParams(cfg) ==
    /\ cfg.offset >= 0
    /\ cfg.signal_threshold >= 0
    /\ SignalLevel(cfg) < cfg.direct_illumination_threshold
    /\ cfg.direct_illumination_threshold < cfg.light_threshold
    /\ RLess(Zero, cfg.pixel_pitch_um)
    /\ RLeq(Zero, cfg.beta_coverage)

\* coef * base ** (n/d) <= r for a power term that is not negative and a
\* rational r >= 0, compared exactly through the d-th powers
PwLeqRat(p, r) ==
    IF p.exp.n >= 0
    THEN RLeq(RMul(RPowNat(p.coef, p.exp.d), RPowNat(p.base, p.exp.n)),
              RPowNat(r, p.exp.d))
    ELSE RLeq(RPowNat(p.coef, p.exp.d),
              RMul(RPowNat(r, p.exp.d), RPowNat(p.base, -p.exp.n)))

\* C30: for a non-empty array and a parameter record of the documented
\* domain (offset >= 0, signal_threshold >= 0, offset + signal_threshold <
\* direct_illumination_threshold < light_threshold, pixel pitch > 0,
\* beta_coverage >= 0) evaluate returns with 0 <= F_final <= F_norm < 1, and
\* F_norm > 0 exactly when the Flare band and at least one of the
\* DirectIllumination and LightSource bands have samples.
C30_MetricRange ==
    (Evaluated /\ Size(TheData) > 0 /\ ValidParams(TheCfg)) =>
       /\ Returned
       /\ PwSign(TheResult.F_final) >= 0
       /\ PwLeqRat(TheResult.F_final, TheResult.F_norm)
       /\ RLess(TheResult.F_norm, One)
       /\ RLess(Zero, TheResult.F_norm) <=>
             (FlareCells(TheData, TheCfg) # {} /\ HasReference(TheData, TheCfg))

\* an evaluation in the domain with 0 < F_final < F_norm, F_final not rational
C30_Witness ==
    /\ Returned
    /\ ValidParams(TheCfg)
    /\ TheResult.F_final.exp # Zero
    /\ RLess(Zero, TheResult.F_norm)
    /\ PwLeqRat(TheResult.F_final, TheResult.F_norm)
    /\ RLess(TheResult.F_final.base, One)

====
